---- MODULE Spec2Model ----
(***************************************************************************)
(* skill-test: the scheduler (run_all_skill_tests_with_progress), the test *)
(* case and iteration runners, the progress consumer of the CLI and the    *)
(* exit path of run_command, as one state machine.                         *)
(*                                                                         *)
(* Strings (skill names, test ids, the --filter value) are sequences of    *)
(* character codes, ordered lexicographically as Rust's String::cmp does.  *)
(* One action is the code between two await points of a task: test-case    *)
(* tasks are polled by one buffer_unordered stream, so they interleave     *)
(* only where they await (the agent call, an assertion evaluation).        *)
(***************************************************************************)
EXTENDS Integers, Sequences, FiniteSets, TLC

\* ------------------------------------------------------------------ bounds
MaxTests == 2           \* test cases loaded per run, over all skills
MaxIterations == 2      \* largest iteration count (config or per-test override)
MaxRequired == 2        \* longest required assertion list
MaxGolden == 1          \* longest golden assertion list
MaxCalls == 3           \* agent calls plus assertion evaluations of one run
MaxParallel == 2        \* largest --parallel value and core count
MaxRateIterations == 50 \* largest iteration count of the pass-rate specification
MaxRateThreshold == 100 \* largest threshold of the pass-rate specification
MaxOutputChars == 2     \* stands for MAX_OUTPUT_CHARS, the stored output length

None == -1              \* Option::None of an Option<u32> / Option<usize>

SkillNames == {<<1>>, <<2>>}
TestIds == {<<1>>, <<1, 2>>}
Filters == {[some |-> FALSE, str |-> <<>>], [some |-> TRUE, str |-> <<2>>]}
Thresholds == {50}

\* ----------------------------------------------------------------- strings
\* String::cmp: byte-wise lexicographic order, a proper prefix is smaller
RECURSIVE StrLess(_, _)
StrLess(a, b) ==
  IF Len(b) = 0 THEN FALSE
  ELSE IF Len(a) = 0 THEN TRUE
  ELSE IF a[1] # b[1] THEN a[1] < b[1]
  ELSE StrLess(Tail(a), Tail(b))

\* str::contains: substring test
Contains(s, sub) ==
  \E i \in 0..(Len(s) - Len(sub)) : SubSeq(s, i + 1, i + Len(sub)) = sub

\* slice::sort_by(|a, b| a.name.cmp(&b.name)): a stable sort on the name field
RECURSIVE InsertByName(_, _)
InsertByName(sorted, x) ==
  IF Len(sorted) = 0 THEN <<x>>
  ELSE IF StrLess(x.name, sorted[Len(sorted)].name)
    THEN InsertByName(SubSeq(sorted, 1, Len(sorted) - 1), x) \o <<sorted[Len(sorted)]>>
    ELSE Append(sorted, x)

RECURSIVE SortByName(_)
SortByName(s) ==
  IF Len(s) = 0 THEN <<>>
  ELSE InsertByName(SortByName(SubSeq(s, 1, Len(s) - 1)), s[Len(s)])

RECURSIVE SumSeq(_)
SumSeq(s) == IF Len(s) = 0 THEN 0 ELSE s[1] + SumSeq(Tail(s))

\* -------------------------------------------------------- f64 pass rate
\* (f64::from(passed) / f64::from(iterations)) * 100.0 in IEEE-754 binary64,
\* round-to-nearest-even after the division and after the multiplication.
\* The 53-bit mantissa is kept in three limbs (17 + 18 + 18 bits) so that
\* every intermediate value fits a 32-bit integer (iterations up to 8192).
RECURSIVE Pow2(_)
Pow2(k) == IF k = 0 THEN 1 ELSE 2 * Pow2(k - 1)

RECURSIVE LeadingZeros(_, _)
LeadingZeros(r, n) == IF 2 * r >= n THEN 0 ELSE 1 + LeadingZeros(2 * r, n)

Limb == 262144

\* the quotient p / n for 0 < p < n:
\* value = (a * 2^36 + b * 2^18 + c) * 2^(-scale)
F64Div(p, n) ==
  LET z == LeadingZeros(p, n)
      r0 == p * Pow2(z)
      a == (r0 * (Limb \div 2)) \div n
      r1 == (r0 * (Limb \div 2)) % n
      b == (r1 * Limb) \div n
      r2 == (r1 * Limb) % n
      c == (r2 * Limb) \div n
      r3 == (r2 * Limb) % n
      rnd == (2 * r3) \div n
      sticky == (2 * r3) % n # 0
      up == IF rnd = 1 /\ (sticky \/ c % 2 = 1) THEN 1 ELSE 0
      c1 == c + up
      b1 == b + (c1 \div Limb)
      a1 == a + (b1 \div Limb)
  IN IF a1 = Limb \div 2
       THEN [a |-> Limb \div 4, b |-> 0, c |-> 0, scale |-> z + 52]
       ELSE [a |-> a1, b |-> b1 % Limb, c |-> c1 % Limb, scale |-> z + 53]

\* the integer part of the product x * 100.0
F64Mul100Floor(x) ==
  LET c == 100 * x.c
      b == 100 * x.b + (c \div Limb)
      a == 100 * x.a + (b \div Limb)
      cl == c % Limb
      bl == b % Limb
      d == IF a < 8388608 THEN 6 ELSE 7
      low == cl % Pow2(d)
      half == Pow2(d - 1)
      odd == (cl \div Pow2(d)) % 2 = 1
      up == IF low > half \/ (low = half /\ odd) THEN 1 ELSE 0
      c2 == cl - low + up * Pow2(d)
      b2 == bl + (c2 \div Limb)
      a2 == a + (b2 \div Limb)
  IN a2 \div Pow2(x.scale - 36)

\* floor of pass_rate; pass_rate >= f64::from(threshold) iff this is >= threshold
PassRateFloor(passed, iterations) ==
  IF iterations = 0 \/ passed = 0 THEN 0
  ELSE IF passed = iterations THEN 100
  ELSE F64Mul100Floor(F64Div(passed, iterations))

VerdictOf(passed, iterations, threshold) ==
  IF PassRateFloor(passed, iterations) >= threshold THEN "Pass" ELSE "Fail"

\* lines 766-800: the summary of one test case from its iteration results
Summarize(id, results, iterations, threshold) ==
  LET passed == Len(SelectSeq(results, LAMBDA r : r.assertion_passed))
      failed == IF iterations >= passed THEN iterations - passed ELSE 0
  IN [id |-> id, iterations |-> iterations, passed |-> passed, failed |-> failed,
      verdict |-> VerdictOf(passed, iterations, threshold)]

\* ------------------------------------------------------------------ state
VARIABLES
  fs,               \* input: what the paths of the command line hold on disk
  skill_dirs,       \* the detected skill directories, [name, config]
  test_files,       \* input: per skill name, what loading its test files yields
  cli,              \* input: the command-line options
  pc,               \* position of run_command
  all_test_items,   \* Phase 1: the flattened (skill_dir, test_case) list
  tasks,            \* one test-case future per item
  events,           \* every event sent on the progress channel, in send order
  test_results,     \* Phase 2: (skill_name, result) in completion order
  results,          \* Phase 3: the SkillTestResult list
  summary,          \* Phase 3: the SkillTestSummary
  rcvd,             \* number of events the progress handler has received
  collector,        \* DetailedCollector.results of the progress handler
  handler_pc,       \* position of the progress handler task
  error_logs,       \* calls of write_skill_error_log and their outcome
  LOG_SEQUENCE,     \* the process-wide log sequence counter
  detailed_results, \* what the progress handler returns
  report,           \* the ExecutionReport printed by --format json
  exit_code,        \* the process exit code
  rate,             \* pass-rate specification: one test summary being computed
  loader,           \* loader specification: one test file being resolved
  procs             \* process specification: the external-process calls

vars == <<fs, skill_dirs, test_files, cli, pc, all_test_items, tasks, events,
          test_results, results, summary, rcvd, collector, handler_pc,
          error_logs, LOG_SEQUENCE, detailed_results, report, exit_code, rate,
          loader, procs>>

inputs == <<fs, skill_dirs, test_files, cli>>

SUCCESS == 0
THRESHOLD_NOT_MET == 1
CONFIG_ERROR == 2
EXECUTION_ERROR == 3

SeqsUpTo(S, n) == UNION {[1..k -> S] : k \in 0..n}

Injective(s) == \A i, j \in 1..Len(s) : i # j => s[i] # s[j]

Permutations2(S) == {s \in [1..Cardinality(S) -> S] : Injective(s)}

\* test.iterations.unwrap_or(skill_dir.config.iterations)
IterationsOf(test_case, skill_dir) ==
  IF test_case.iterations # None THEN test_case.iterations
  ELSE skill_dir.config.iterations

CallsOf(test_case, skill_dir) ==
  IterationsOf(test_case, skill_dir) * (1 + test_case.nreq + test_case.ngold)

\* ------------------------------------------------------------------- Init
\* the configured iteration count is the largest one; smaller counts come
\* from the per-test override
Configs == [iterations : {MaxIterations}, threshold : Thresholds]

TestCases(nreq, ngold) ==
  [id : TestIds, iterations : {None} \cup 0..(MaxIterations - 1),
   nreq : {nreq}, ngold : {ngold}]

\* what discover_test_files + load_and_resolve_test_case yield for one skill
LoadResults(nreq, ngold) ==
  [ok : {TRUE}, cases : SeqsUpTo(TestCases(nreq, ngold), MaxTests)]
    \cup {[ok |-> FALSE, cases |-> <<>>]}

CliOptions ==
  {o \in [parallel : {None} \cup 0..MaxParallel, cores : 1..MaxParallel,
          filter : Filters, no_error_log : {FALSE}] :
     o.cores = IF o.parallel = None THEN MaxParallel ELSE 1}

\* detect_skill_dirs: a non-empty list of skill directories with distinct names
SkillDirLists ==
  {s \in SeqsUpTo(SkillNames, Cardinality(SkillNames)) : Len(s) > 0 /\ Injective(s)}

TotalTests(dirs, files) ==
  SumSeq([i \in 1..Len(dirs) |-> Len(files[dirs[i].name].cases)])

TotalCalls(dirs, files) ==
  SumSeq([i \in 1..Len(dirs) |->
            SumSeq([j \in 1..Len(files[dirs[i].name].cases) |->
                      CallsOf(files[dirs[i].name].cases[j], dirs[i])])])

NoRate == [state |-> "idle"]

NoLoader == [state |-> "idle"]

\* the scheduler specifications start after skill discovery
NoFs == <<>>

NoProcs == [state |-> "idle"]

InitRun ==
  /\ pc = "start"
  /\ all_test_items = <<>>
  /\ tasks = <<>>
  /\ events = <<>>
  /\ test_results = <<>>
  /\ results = <<>>
  /\ summary = [total_skills |-> 0, passed_skills |-> 0, failed_skills |-> 0,
                total_tests |-> 0, passed_tests |-> 0, failed_tests |-> 0]
  /\ rcvd = 0
  /\ collector = [n \in SkillNames |-> <<>>]
  /\ handler_pc = "recv"
  /\ error_logs = <<>>
  /\ LOG_SEQUENCE = 0
  /\ detailed_results = [n \in SkillNames |-> <<>>]
  /\ report = [printed |-> FALSE, skills |-> <<>>]
  /\ exit_code = None

Init ==
  /\ \E names \in SkillDirLists, config \in Configs :
       skill_dirs = [i \in 1..Len(names) |-> [name |-> names[i], config |-> config]]
  /\ \E nreq \in 0..MaxRequired, ngold \in 0..MaxGolden :
       test_files \in [{skill_dirs[i].name : i \in 1..Len(skill_dirs)}
                         -> LoadResults(nreq, ngold)]
  /\ TotalTests(skill_dirs, test_files) <= MaxTests
  /\ TotalCalls(skill_dirs, test_files) <= MaxCalls
  /\ cli \in CliOptions
  /\ InitRun
  /\ rate = NoRate
  /\ loader = NoLoader
  /\ procs = NoProcs
  /\ fs = NoFs

\* ----------------------------------------------------------------- events
\* ProgressEvent values; task is the index of the scheduled test case that
\* sent the event (a history field the consumer never reads)
AllTestsStarted(total, count) ==
  [kind |-> "AllTestsStarted", total_tests |-> total, skill_count |-> count]

SkillStarted(name, count) ==
  [kind |-> "SkillStarted", skill_name |-> name, test_count |-> count]

TestStarted(t, name, id, total) ==
  [kind |-> "TestStarted", task |-> t, skill_name |-> name, test_id |-> id,
   total_iterations |-> total]

IterationStarted(t, name, id, i, total) ==
  [kind |-> "IterationStarted", task |-> t, skill_name |-> name, test_id |-> id,
   iteration |-> i, total |-> total]

AssertionResult(t, name, id, i, aid, passed, golden) ==
  [kind |-> "AssertionResult", task |-> t, skill_name |-> name, test_id |-> id,
   iteration |-> i, assertion_id |-> aid, passed |-> passed, is_golden |-> golden]

IterationCompleted(t, name, id, i, passed, detailed) ==
  [kind |-> "IterationCompleted", task |-> t, skill_name |-> name, test_id |-> id,
   iteration |-> i, passed |-> passed, detailed |-> detailed]

TestCompleted(t, name, id, result, detailed) ==
  [kind |-> "TestCompleted", task |-> t, skill_name |-> name, test_id |-> id,
   result |-> result, detailed |-> detailed]

SkillCompleted(name, verdict) ==
  [kind |-> "SkillCompleted", skill_name |-> name, verdict |-> verdict]

TaskKinds == {"TestStarted", "IterationStarted", "AssertionResult",
              "IterationCompleted", "TestCompleted"}

\* --------------------------------------------------------------- Phase 1
\* a scheduler that ignores the --filter
Unfiltered(cases, filter) == cases

\* lines 1130-1138: the test cases of one skill that pass the --filter
Filtered(cases, filter) ==
  SelectSeq(cases, LAMBDA c : filter.some => Contains(c.id, filter.str))

RECURSIVE Flatten(_, _, _)
Flatten(dirs, files, filter) ==
  IF Len(dirs) = 0 THEN <<>>
  ELSE LET cases == Filtered(files[dirs[1].name].cases, filter)
       IN [j \in 1..Len(cases) |-> [skill_dir |-> dirs[1], test_case |-> cases[j]]]
            \o Flatten(Tail(dirs), files, filter)

\* lines 1145-1149: tests_per_skill, a map holding only skills with an item
TestsPerSkill(items, name) ==
  Len(SelectSeq(items, LAMBDA it : it.skill_dir.name = name))

\* a start sequence that announces the skills before the run
StartEventsLate(items, dirs, order) ==
  [j \in 1..Len(order) |-> SkillStarted(order[j], TestsPerSkill(items, order[j]))]
    \o <<AllTestsStarted(Len(items), Len(dirs))>>

\* lines 1151-1165: the global start event, then one SkillStarted per key of
\* tests_per_skill in the iteration order of the map
StartEvents(items, dirs, order) ==
  <<AllTestsStarted(Len(items), Len(dirs))>>
    \o [j \in 1..Len(order) |-> SkillStarted(order[j], TestsPerSkill(items, order[j]))]

\* a test-case future before its first poll; history is the record of what
\* the agent calls and assertion evaluations of the task returned, one entry
\* per iteration (a history field the program does not have)
PendingTask(item) ==
  [skill_dir |-> item.skill_dir, test_case |-> item.test_case, state |-> "pending",
   i |-> 0, k |-> 0, assertion_passed |-> TRUE, golden_passed |-> "None",
   detailed_assertions |-> <<>>, detailed_golden_assertions |-> <<>>,
   output |-> <<>>, results |-> <<>>, detailed_iterations |-> <<>>,
   history |-> <<>>]

\* a loader that looks at the test files of the first skill only
LoadFailsAtFirst(dirs, files) == ~files[dirs[1].name].ok

\* lines 1118-1128: discover_test_files or load_and_resolve_test_case returns
\* Err for a test file of some skill, which `?` hands to the caller
LoadFails(dirs, files) == \E i \in 1..Len(dirs) : ~files[dirs[i].name].ok

\* an entry point that reports a scheduler error as a configuration error
RunnerErrorExitAsConfig == CONFIG_ERROR

\* main.rs 742-745: the Err arm of the scheduler call
RunnerErrorExit == EXECUTION_ERROR

\* run_all_skill_tests_with_progress up to the first poll of the test stream:
\* a loader error returns before any event; otherwise AllTestsStarted and one
\* SkillStarted per key of tests_per_skill, in the map's iteration order
LoadAndStart ==
  /\ pc = "start"
  /\ IF LoadFails(skill_dirs, test_files)
       THEN /\ pc' = "exited"
            /\ exit_code' = RunnerErrorExit
            /\ UNCHANGED <<all_test_items, tasks, events>>
       ELSE LET items == Flatten(skill_dirs, test_files, cli.filter)
                keys == {items[j].skill_dir.name : j \in 1..Len(items)}
            IN /\ all_test_items' = items
               /\ tasks' = [j \in 1..Len(items) |-> PendingTask(items[j])]
               /\ \E order \in Permutations2(keys) :
                    events' = StartEvents(items, skill_dirs, order)
               /\ pc' = "running"
               /\ UNCHANGED exit_code
  /\ UNCHANGED <<inputs, test_results, results, summary, rcvd, collector,
                 handler_pc, error_logs, LOG_SEQUENCE, detailed_results, report, rate, loader, procs>>

\* --------------------------------------------------------------- Phase 2
\* the text "... [truncated]"
TruncatedMark == <<46, 46, 46, 32, 91, 116, 114, 117, 110, 99, 97, 116, 101, 100, 93>>

\* lines 837-845
truncate_utf8(s, max_chars) ==
  IF Len(s) > max_chars THEN SubSeq(s, 1, max_chars) \o TruncatedMark ELSE s

\* String::new()
EmptyString == [hex_len |-> 0, digest_of |-> <<>>]

\* claude.rs 361-374: the SHA-256 digest of the text as 64 hex characters;
\* the digest is held as the text it was computed from, two texts having
\* equal digests only when they are equal
compute_output_hash(output) == [hex_len |-> 64, digest_of |-> output]

\* exec_result.response.result: what the agent answers in iteration i of a
\* test case, a text of one character more in every iteration, so that a
\* test case has answers below, at and above the stored length
AgentResult(test_case, i) == [j \in 1..(Len(test_case.id) + i - 1) |-> 1]

\* main.rs 605-609: the Option<usize> handed to the scheduler
Parallel(o) ==
  IF o.parallel = 0 THEN None
  ELSE IF o.parallel = None THEN o.cores
  ELSE o.parallel

Max2(a, b) == IF a >= b THEN a ELSE b

InFlight(ts) == {t \in 1..Len(ts) : ts[t].state \in {"exec", "assert"}}

\* a stream that polls every future at once
MayStartUnbounded(ts, parallel) == TRUE

\* buffer_unordered(n.max(1)) pulls the next future while fewer than n are
\* in progress; the sequential loop starts a test when the previous returned
MayStart(ts, parallel) ==
  IF parallel = None THEN InFlight(ts) = {}
  ELSE Cardinality(InFlight(ts)) < Max2(parallel, 1)

\* lines 766-811 and the TestCompleted send of the scheduler: the loop over
\* the iterations is over
CompleteTest(t, task) ==
  LET iterations == IterationsOf(task.test_case, task.skill_dir)
      result == Summarize(task.test_case.id, task.results, iterations,
                          task.skill_dir.config.threshold)
      detailed == [name |-> task.test_case.id,
                   iterations |-> task.detailed_iterations,
                   summary |-> result]
  IN [task |-> [task EXCEPT !.state = "done"],
      sent |-> <<TestCompleted(t, task.skill_dir.name, result.id, result, detailed)>>,
      returned |-> <<[skill_name |-> task.skill_dir.name, result |-> result]>>]

\* lines 675-694: the head of the loop body for iteration i, up to the await
\* of execute_claude
StartIteration(t, task, i) ==
  [task |-> [task EXCEPT !.state = "exec", !.i = i, !.k = 0,
                         !.assertion_passed = TRUE, !.golden_passed = "None",
                         !.detailed_assertions = <<>>,
                         !.detailed_golden_assertions = <<>>],
   sent |-> <<IterationStarted(t, task.skill_dir.name, task.test_case.id, i,
                               IterationsOf(task.test_case, task.skill_dir))>>,
   returned |-> <<>>]

\* for i in 1..=iterations: the next iteration, or the end of the loop
Continue(t, task) ==
  IF task.i < IterationsOf(task.test_case, task.skill_dir)
    THEN StartIteration(t, task, task.i + 1)
    ELSE CompleteTest(t, task)

\* a loop body that sends the detailed record without keeping it
FinishIterationUnrecorded(t, task, result, detailed_iter) ==
  LET pushed == [task EXCEPT !.results = Append(@, result)]
      next == Continue(t, pushed)
  IN [task |-> next.task,
      sent |-> <<IterationCompleted(t, task.skill_dir.name, task.test_case.id,
                                    task.i, result.assertion_passed, detailed_iter)>>
                 \o next.sent,
      returned |-> next.returned]

\* lines 738-763: the tail of the loop body, then the loop goes on
FinishIteration(t, task, result, detailed_iter) ==
  LET pushed == [task EXCEPT !.results = Append(@, result),
                             !.detailed_iterations = Append(@, detailed_iter)]
      next == Continue(t, pushed)
  IN [task |-> next.task,
      sent |-> <<IterationCompleted(t, task.skill_dir.name, task.test_case.id,
                                    task.i, result.assertion_passed, detailed_iter)>>
                 \o next.sent,
      returned |-> next.returned]

\* an iteration whose passed flag also requires the golden assertions
IterationOkGolden(t, task) ==
  LET passed == task.assertion_passed /\ task.golden_passed # "Some(false)"
  IN FinishIteration(t, task,
       [iteration |-> task.i, assertion_passed |-> passed,
        golden_passed |-> task.golden_passed],
       [iteration |-> task.i, passed |-> passed,
        output |-> truncate_utf8(task.output, MaxOutputChars),
        output_hash |-> compute_output_hash(task.output),
        assertions |-> task.detailed_assertions,
        golden_assertions |-> task.detailed_golden_assertions])

\* lines 599-624: the Ok value of run_simplified_iteration_with_progress
IterationOk(t, task) ==
  FinishIteration(t, task,
    [iteration |-> task.i, assertion_passed |-> task.assertion_passed,
     golden_passed |-> task.golden_passed],
    [iteration |-> task.i, passed |-> task.assertion_passed,
     output |-> truncate_utf8(task.output, MaxOutputChars),
     output_hash |-> compute_output_hash(task.output),
     assertions |-> task.detailed_assertions,
     golden_assertions |-> task.detailed_golden_assertions])

\* an Err of the iteration that ends the test case
IterationErrAborts(t, task) ==
  CompleteTest(t,
    [task EXCEPT
       !.results = Append(@, [iteration |-> task.i, assertion_passed |-> FALSE,
                              golden_passed |-> "None"]),
       !.detailed_iterations = Append(@,
          [iteration |-> task.i, passed |-> FALSE,
           output |-> <<>>, output_hash |-> EmptyString,
           assertions |-> <<[name |-> "execution", assertion_type |-> "execution",
                             passed |-> FALSE, error |-> "Some"]>>,
           golden_assertions |-> <<>>])])

\* an Err of the iteration that leaves no record and no event
IterationErrDropped(t, task) == Continue(t, task)

\* lines 700-735: an Err of the iteration becomes a failed iteration
IterationErr(t, task) ==
  FinishIteration(t, task,
    [iteration |-> task.i, assertion_passed |-> FALSE, golden_passed |-> "None"],
    [iteration |-> task.i, passed |-> FALSE,
     output |-> <<>>, output_hash |-> EmptyString,
     assertions |-> <<[name |-> "execution", assertion_type |-> "execution",
                       passed |-> FALSE, error |-> "Some"]>>,
     golden_assertions |-> <<>>])

Apply(t, step) ==
  /\ tasks' = [tasks EXCEPT ![t] = step.task]
  /\ events' = events \o step.sent
  /\ test_results' = test_results \o step.returned
  /\ UNCHANGED <<inputs, pc, all_test_items, results, summary, rcvd, collector,
                 handler_pc, error_logs, LOG_SEQUENCE, detailed_results, report,
                 exit_code, rate, loader, procs>>

\* the first poll of a test-case future (lines 1178-1199 / 1226-1247): it is
\* pulled from the list in order when the concurrency limit allows
StartTest(t) ==
  /\ pc = "running"
  /\ tasks[t].state = "pending"
  /\ \A u \in 1..(t - 1) : tasks[u].state # "pending"
  /\ MayStart(tasks, Parallel(cli))
  /\ LET task == tasks[t]
         next == Continue(t, task)
     IN Apply(t, [next EXCEPT !.sent =
          <<TestStarted(t, task.skill_dir.name, task.test_case.id,
                        IterationsOf(task.test_case, task.skill_dir))>> \o @])

\* execute_claude returns (lines 474-481): Err on timeout, spawn failure,
\* non-zero exit or unparsable output
ExecuteClaudeReturns(t, ok) ==
  /\ pc = "running"
  /\ tasks[t].state = "exec"
  /\ LET result == IF ok THEN AgentResult(tasks[t].test_case, tasks[t].i) ELSE <<>>
         task == [tasks[t] EXCEPT
                    !.history = Append(@, [exec |-> ok, output |-> result,
                                           outcomes |-> <<>>])]
         ran == [task EXCEPT
                   !.output = result,
                   !.golden_passed =
                     IF task.test_case.ngold = 0 THEN "None" ELSE "Some(true)"]
     IN IF ~ok THEN Apply(t, IterationErr(t, task))
        ELSE IF task.test_case.nreq + task.test_case.ngold = 0
          THEN Apply(t, IterationOk(t, ran))
        ELSE Apply(t, [task |-> [ran EXCEPT !.state = "assert", !.k = 1],
                       sent |-> <<>>, returned |-> <<>>])

\* build_detailed_assertion (lines 848-863)
DetailedAssertion(id, passed, error) ==
  [name |-> id, assertion_type |-> "assertion", passed |-> passed, error |-> error]

\* assertion loops that propagate an evaluation error to the iteration
AssertionStepPropagates(t, task, outcome) ==
  IF outcome = "error" THEN IterationErr(t, task)
  ELSE LET nreq == task.test_case.nreq
           golden == task.k > nreq
           id == IF golden THEN task.k - nreq ELSE task.k
           passed == outcome = "pass"
           record == DetailedAssertion(id, passed, "None")
           sent == <<AssertionResult(t, task.skill_dir.name, task.test_case.id,
                                     task.i, id, passed, golden)>>
           upd == IF golden
                    THEN [task EXCEPT
                            !.golden_passed = IF passed THEN @ ELSE "Some(false)",
                            !.detailed_golden_assertions = Append(@, record)]
                    ELSE [task EXCEPT
                            !.assertion_passed = @ /\ passed,
                            !.detailed_assertions = Append(@, record)]
       IN IF task.k < nreq + task.test_case.ngold
            THEN [task |-> [upd EXCEPT !.k = task.k + 1], sent |-> sent,
                  returned |-> <<>>]
            ELSE LET done == IterationOk(t, upd)
                 IN [done EXCEPT !.sent = sent \o @]

\* the body of the two assertion loops for the k-th assertion of the two
\* lists (lines 496-541 for a required one, 552-597 for a golden one), given
\* what evaluate_assertion returned: Ok(true), Ok(false) or Err
AssertionStep(t, task, outcome) ==
  LET nreq == task.test_case.nreq
      ngold == task.test_case.ngold
      golden == task.k > nreq
      id == IF golden THEN task.k - nreq ELSE task.k
      passed == outcome = "pass"
      record == DetailedAssertion(id, passed,
                                  IF outcome = "error" THEN "Some" ELSE "None")
      sent == <<AssertionResult(t, task.skill_dir.name, task.test_case.id,
                                task.i, id, passed, golden)>>
      upd == IF golden
               THEN [task EXCEPT
                       !.golden_passed = IF passed THEN @ ELSE "Some(false)",
                       !.detailed_golden_assertions = Append(@, record)]
               ELSE [task EXCEPT
                       !.assertion_passed = @ /\ passed,
                       !.detailed_assertions = Append(@, record)]
  IN IF task.k < nreq + ngold
       THEN [task |-> [upd EXCEPT !.k = task.k + 1], sent |-> sent, returned |-> <<>>]
       ELSE LET done == IterationOk(t, upd)
            IN [done EXCEPT !.sent = sent \o @]

\* evaluate_assertion returns to the iteration that awaits it
EvaluateAssertionReturns(t, outcome) ==
  /\ pc = "running"
  /\ tasks[t].state = "assert"
  /\ Apply(t, AssertionStep(t,
       [tasks[t] EXCEPT !.history[Len(tasks[t].history)].outcomes = Append(@, outcome)],
       outcome))

\* --------------------------------------------------------------- Phase 3
AllPass(tests) == \A j \in 1..Len(tests) : tests[j].verdict = "Pass"

\* a skill verdict that one passing test is enough for
VerdictOfAny(tests) ==
  IF \E j \in 1..Len(tests) : tests[j].verdict = "Pass" THEN "Pass" ELSE "Fail"

VerdictOfAll(tests) == IF AllPass(tests) THEN "Pass" ELSE "Fail"

\* lines 1265-1297: the results of one skill, in the order they were collected
SkillTestResult(skill_dir, collected) ==
  LET mine == SelectSeq(collected, LAMBDA r : r.skill_name = skill_dir.name)
      tests == [j \in 1..Len(mine) |-> mine[j].result]
  IN [name |-> skill_dir.name, tests |-> tests, verdict |-> VerdictOfAll(tests)]

CountVerdict(s, v) == Len(SelectSeq(s, LAMBDA r : r.verdict = v))

\* lines 1312-1334
SkillTestSummary(rs) ==
  LET total_tests == SumSeq([j \in 1..Len(rs) |-> Len(rs[j].tests)])
      passed_tests == SumSeq([j \in 1..Len(rs) |-> CountVerdict(rs[j].tests, "Pass")])
  IN [total_skills |-> Len(rs),
      passed_skills |-> CountVerdict(rs, "Pass"),
      failed_skills |-> Len(rs) - CountVerdict(rs, "Pass"),
      total_tests |-> total_tests,
      passed_tests |-> passed_tests,
      failed_tests |-> total_tests - passed_tests]

\* a stream that counts as exhausted when its last future has been polled
AllStarted(ts) == \A t \in 1..Len(ts) : ts[t].state # "pending"

\* stream.next() yields None: every future of the stream has completed
AllDone(ts) == \A t \in 1..Len(ts) : ts[t].state = "done"

\* the test stream is exhausted (lines 1217-1222 / 1262): group, send one
\* SkillCompleted per skill directory, sort, summarise and return Ok; every
\* sender of the channel is dropped with the return
CollectAndAggregate ==
  /\ pc = "running"
  /\ AllDone(tasks)
  /\ LET built == [i \in 1..Len(skill_dirs) |->
                     SkillTestResult(skill_dirs[i], test_results)]
     IN /\ events' = events \o [i \in 1..Len(built) |->
                                  SkillCompleted(built[i].name, built[i].verdict)]
        /\ results' = SortByName(built)
        /\ summary' = SkillTestSummary(SortByName(built))
  /\ pc' = "waiting"
  /\ UNCHANGED <<inputs, all_test_items, tasks, test_results, rcvd, collector,
                 handler_pc, error_logs, LOG_SEQUENCE, detailed_results, report,
                 exit_code, rate, loader, procs>>

\* ------------------------------------------------------ progress handler
\* what the file system answers to write_skill_error_log: both calls succeed,
\* fs::create_dir_all fails, or fs::write fails
IoOutcomes == {"ok", "create_dir_err", "write_err"}

\* the milliseconds LogTimestamp::now() can read (main.rs 247-268); two writes
\* may read the same one
Timestamps == {1, 2}

\* a write that reuses the counter value without advancing it
load_sequence(seq) == seq

\* LOG_SEQUENCE.fetch_add(1, Ordering::SeqCst) (main.rs 287); the AtomicU32
\* wraps after 2^32 writes, which no run of at most MaxTests skills reaches
fetch_add_sequence(seq) == seq + 1

\* a report that holds only the last collected test of the skill
LogReportOfLast(skill_name, completed, verdict) ==
  <<[skill_name |-> skill_name,
     tests |-> SubSeq(completed, Len(completed), Len(completed)),
     verdict |-> verdict]>>

\* the skills field of the report write_skill_error_log builds (main.rs
\* 291-309): the one skill with every detailed result handed in
LogReport(skill_name, completed, verdict) ==
  <<[skill_name |-> skill_name, tests |-> completed, verdict |-> verdict]>>

\* one call of write_skill_error_log (main.rs 274-315) and how it ended: with
\* io = "ok" the file <ts>-<seq>.json is in the log directory of the skill;
\* fs::create_dir_all fails before the timestamp and the counter are read
LogWrite(skill_name, completed, verdict, io, now, seq) ==
  [dir |-> skill_name, io |-> io,
   ts |-> IF io = "create_dir_err" THEN None ELSE now,
   seq |-> IF io = "create_dir_err" THEN None ELSE seq,
   skills |-> LogReport(skill_name, completed, verdict)]

\* ErrorLogWriter::write_log (main.rs 162-187) and the write_skill_error_log
\* it calls; an Err of the latter is dropped
WriteLog(skill_name, completed, verdict, io, now) ==
  IF cli.no_error_log \/ Len(completed) = 0
    THEN UNCHANGED <<error_logs, LOG_SEQUENCE>>
    ELSE /\ error_logs' = Append(error_logs,
                                 LogWrite(skill_name, completed, verdict, io, now,
                                          LOG_SEQUENCE))
         /\ LOG_SEQUENCE' = IF io = "create_dir_err" THEN LOG_SEQUENCE
                            ELSE fetch_add_sequence(LOG_SEQUENCE)

\* one turn of the while-let loop of the progress handler (main.rs 642-724)
ProgressHandlerRecv ==
  /\ pc \in {"running", "waiting"}
  /\ handler_pc = "recv"
  /\ rcvd < Len(events)
  /\ rcvd' = rcvd + 1
  /\ LET e == events[rcvd + 1]
     IN /\ IF e.kind = "TestCompleted"
             THEN collector' = [collector EXCEPT ![e.skill_name] = Append(@, e.detailed)]
             ELSE UNCHANGED collector
        /\ IF e.kind = "SkillCompleted" /\ e.verdict = "Fail"
             THEN \E io \in IoOutcomes, now \in Timestamps :
                    WriteLog(e.skill_name, collector[e.skill_name], e.verdict, io, now)
             ELSE UNCHANGED <<error_logs, LOG_SEQUENCE>>
  /\ UNCHANGED <<inputs, pc, all_test_items, tasks, events, test_results, results,
                 summary, handler_pc, detailed_results, report, exit_code, rate, loader, procs>>

\* a consumer that returns as soon as the scheduler has returned, whatever
\* is left in the channel
ProgressHandlerFinishEarly ==
  /\ pc = "waiting"
  /\ handler_pc = "recv"
  /\ handler_pc' = "done"
  /\ detailed_results' = [n \in DOMAIN collector |-> SortByName(collector[n])]
  /\ UNCHANGED <<inputs, pc, all_test_items, tasks, events, test_results, results,
                 summary, rcvd, collector, error_logs, LOG_SEQUENCE, report,
                 exit_code, rate, loader, procs>>

\* a collector that hands its results over in completion order
into_unsorted_results(c) == c

\* DetailedCollector::into_sorted_results (main.rs 222-227)
into_sorted_results(c) == [n \in DOMAIN c |-> SortByName(c[n])]

\* recv() yields None: the channel is empty and every sender is dropped
ProgressHandlerFinish ==
  /\ pc = "waiting"
  /\ handler_pc = "recv"
  /\ rcvd = Len(events)
  /\ handler_pc' = "done"
  /\ detailed_results' = into_sorted_results(collector)
  /\ UNCHANGED <<inputs, pc, all_test_items, tasks, events, test_results, results,
                 summary, rcvd, collector, error_logs, LOG_SEQUENCE, report,
                 exit_code, rate, loader, procs>>

\* ------------------------------------------------------------- exit path
\* main.rs 488-513
build_execution_report(rs, detailed) ==
  [j \in 1..Len(rs) |->
     [skill_name |-> rs[j].name, tests |-> detailed[rs[j].name],
      verdict |-> rs[j].verdict]]

\* the parsed --format value; a command line that leaves it open stands for
\* both formats
ReportFormats(c) ==
  IF "format" \in DOMAIN c THEN {c.format} ELSE {"table", "json"}

\* main.rs 749-789: the handler has been joined; --format is read here
RunCommandExit ==
  /\ pc = "waiting"
  /\ handler_pc = "done"
  /\ pc' = "exited"
  /\ IF Len(results) = 0
       THEN /\ exit_code' = SUCCESS
            /\ UNCHANGED report
       ELSE /\ \E format \in ReportFormats(cli) :
                 report' = IF format = "json"
                             THEN [printed |-> TRUE,
                                   skills |-> build_execution_report(results, detailed_results)]
                             ELSE report
            /\ exit_code' = IF summary.failed_skills = 0 THEN SUCCESS
                            ELSE THRESHOLD_NOT_MET
  /\ UNCHANGED <<inputs, all_test_items, tasks, events, test_results, results,
                 summary, rcvd, collector, handler_pc, error_logs, LOG_SEQUENCE,
                 detailed_results, rate, loader, procs>>

\* ------------------------------------------- command line and discovery
Paths == {<<1>>, <<2>>}

\* Option<PathBuf> / Option<String>
NoneStr == [some |-> FALSE, str |-> <<>>]

SomeStr(x) == [some |-> TRUE, str |-> x]

\* Option<HookType> and the --hook option, None
NoHook == [some |-> FALSE, str |-> ""]

\* types.rs 766-776
HookTypes == {"none", "simple", "forced", "custom"}

Ok(v) == [ok |-> TRUE, err |-> "", val |-> v]

Err(e) == [ok |-> FALSE, err |-> e, val |-> <<>>]

\* Vec<PathBuf>::sort
RECURSIVE InsertPath(_, _)
InsertPath(sorted, x) ==
  IF Len(sorted) = 0 THEN <<x>>
  ELSE IF StrLess(x, sorted[Len(sorted)])
    THEN InsertPath(SubSeq(sorted, 1, Len(sorted) - 1), x) \o <<sorted[Len(sorted)]>>
    ELSE Append(sorted, x)

RECURSIVE SortPaths(_)
SortPaths(s) ==
  IF Len(s) = 0 THEN <<>>
  ELSE InsertPath(SortPaths(SubSeq(s, 1, Len(s) - 1)), s[Len(s)])

\* skill_dir.rs 98-102: path.is_dir() && path.join("SKILL.md").exists()
is_skill_dir(f, p) == f[p].kind = "dir" /\ f[p].skill_md.state # "missing"

\* the paths the pattern "*" expands to: every existing entry, in path order
GlobAll(f) ==
  SortPaths(CHOOSE q \in [1..Cardinality({p \in Paths : f[p].kind # "missing"}) -> Paths] :
              /\ Injective(q)
              /\ \A j \in 1..Len(q) : f[q[j]].kind # "missing")

\* skill_dir.rs 167-192: the loop over the path arguments
RECURSIVE ResolveArgs(_, _, _)
ResolveArgs(f, args, resolved) ==
  IF Len(args) = 0 THEN Ok(resolved)
  ELSE IF args[1].glob
    THEN LET found == SelectSeq(GlobAll(f), LAMBDA p : is_skill_dir(f, p))
         IN IF Len(found) = 0 THEN Err("NoSkillDirsFound")
            ELSE ResolveArgs(f, Tail(args), resolved \o found)
    ELSE IF f[args[1].path].kind = "missing" THEN Err("DirectoryNotFound")
    ELSE IF ~is_skill_dir(f, args[1].path) THEN Err("SkillMdNotFound")
    ELSE ResolveArgs(f, Tail(args), Append(resolved, args[1].path))

\* skill_dir.rs 156-197; cwd is the current directory
resolve_skill_paths(f, args, cwd) ==
  IF Len(args) = 0
    THEN IF ~is_skill_dir(f, cwd) THEN Err("SkillMdNotFound") ELSE Ok(<<cwd>>)
    ELSE LET r == ResolveArgs(f, args, <<>>)
         IN IF r.ok THEN Ok(SortPaths(r.val)) ELSE r

\* skill_dir.rs 105-138, on the shape of the content of SKILL.md
extract_skill_name(f, p) ==
  CASE f[p].skill_md.state = "missing" -> Err("SkillMdNotFound")
    [] f[p].skill_md.state = "no_frontmatter" -> Err("MissingFrontmatter")
    [] f[p].skill_md.state = "unclosed" -> Err("UnclosedFrontmatter")
    [] f[p].skill_md.state = "no_name" -> Err("MissingName")
    [] OTHER -> Ok(f[p].skill_md.name)

\* SkillTestConfig::default (types.rs 819-850)
DefaultConfig ==
  [iterations |-> 10, threshold |-> 80, hook |-> "simple", hook_path |-> NoneStr]

\* config.rs 44-58
validate_config(config) ==
  IF config.hook = "custom"
    THEN IF ~config.hook_path.some THEN Err("CustomHookWithoutPath") ELSE Ok(config)
    ELSE IF config.hook_path.some THEN Err("HookPathWithoutCustom") ELSE Ok(config)

\* config.rs 29-41, on the shape of skill-test.config.yaml
load_config(f, p) ==
  CASE f[p].config_file.state = "missing" -> validate_config(DefaultConfig)
    [] f[p].config_file.state = "bad_yaml" -> Err("Yaml")
    [] OTHER -> validate_config(f[p].config_file.config)

\* skill_dir.rs 47-67
detect_skill_dir(f, p) ==
  IF f[p].kind # "dir" THEN Err("DirectoryNotFound")
  ELSE LET name == extract_skill_name(f, p)
       IN IF ~name.ok THEN name
          ELSE LET config == load_config(f, p)
               IN IF ~config.ok THEN Err("Config")
                  ELSE Ok([path |-> p, name |-> name.val, config |-> config.val])

\* skill_dir.rs 75-96
RECURSIVE DetectFrom(_, _, _)
DetectFrom(f, paths, dirs) ==
  IF Len(paths) = 0 THEN Ok(dirs)
  ELSE LET d == detect_skill_dir(f, paths[1])
       IN IF ~d.ok THEN d
          ELSE IF \E j \in 1..Len(dirs) : dirs[j].name = d.val.name
            THEN Err("DuplicateName")
          ELSE DetectFrom(f, Tail(paths), Append(dirs, d.val))

detect_skill_dirs(f, paths) == DetectFrom(f, paths, <<>>)

\* main.rs 387-397
parse_hook_type(hook) ==
  IF hook \in HookTypes THEN Ok(hook) ELSE Err("Invalid hook type")

\* config.rs 74-100, for the fields the model carries
apply_overrides(config, overrides) ==
  [config EXCEPT
     !.iterations = IF overrides.iterations # None THEN overrides.iterations ELSE @,
     !.hook = IF overrides.hook.some THEN overrides.hook.str ELSE @,
     !.hook_path = IF overrides.hook_path.some THEN overrides.hook_path ELSE @]

\* an exit code of 3 for errors found before the scheduler is called
SetupErrorExitAsExecution == EXECUTION_ERROR

\* main.rs 533, 542, 551, 557, 566, 576, 581
SetupErrorExit == CONFIG_ERROR

\* main.rs 522-597: what the setup of run_command yields, an Err for every
\* early return and otherwise the skill directories with the overrides applied
RunCommandSetupResult(f, c) ==
  IF c.format \notin {"table", "json"} THEN Err("Invalid format")
  ELSE LET skill_paths == resolve_skill_paths(f, c.skill_dirs, c.cwd)
       IN IF ~skill_paths.ok THEN Err("Failed to resolve skill paths")
  ELSE LET dirs == detect_skill_dirs(f, skill_paths.val)
       IN IF ~dirs.ok THEN Err("Failed to detect skill directories")
  ELSE IF Len(dirs.val) = 0 THEN Err("No skill directories found")
  ELSE LET hook_type == IF c.hook.some THEN parse_hook_type(c.hook.str)
                        ELSE Ok(NoHook.str)
       IN IF ~hook_type.ok THEN Err("Invalid hook type")
  ELSE IF hook_type.val = "custom" /\ ~c.hook_path.some
         THEN Err("--hook-path is required when --hook=custom")
  ELSE IF c.hook_path.some /\ hook_type.val # "custom"
         THEN Err("--hook-path should only be used with --hook=custom")
  ELSE LET overrides == [iterations |-> c.iterations, hook |-> c.hook,
                         hook_path |-> c.hook_path]
       IN Ok([i \in 1..Len(dirs.val) |->
                [dirs.val[i] EXCEPT !.config = apply_overrides(@, overrides)]])

\* the setup of run_command, up to the call of the scheduler
RunCommandSetup ==
  /\ pc = "cli"
  /\ LET r == RunCommandSetupResult(fs, cli)
     IN IF r.ok
          THEN /\ skill_dirs' = r.val
               /\ pc' = "start"
               /\ UNCHANGED exit_code
          ELSE /\ pc' = "exited"
               /\ exit_code' = SetupErrorExit
               /\ UNCHANGED skill_dirs
  /\ UNCHANGED <<fs, test_files, cli, all_test_items, tasks, events, test_results,
                 results, summary, rcvd, collector, handler_pc, error_logs,
                 LOG_SEQUENCE, detailed_results, report, rate, loader, procs>>

Next ==
  \/ LoadAndStart
  \/ \E t \in 1..Len(tasks) : StartTest(t)
  \/ \E t \in 1..Len(tasks), ok \in BOOLEAN : ExecuteClaudeReturns(t, ok)
  \/ \E t \in 1..Len(tasks), outcome \in {"pass", "fail", "error"} :
       EvaluateAssertionReturns(t, outcome)
  \/ CollectAndAggregate
  \/ ProgressHandlerRecv
  \/ ProgressHandlerFinish
  \/ RunCommandExit

Spec == Init /\ [][Next]_vars

\* the runtime polls the spawned consumer task until it returns, and
\* run_command runs on once the scheduler and the consumer have returned
\* (main.rs 642-749); nothing is assumed about the external calls
Fairness ==
  /\ WF_vars(ProgressHandlerRecv)
  /\ WF_vars(ProgressHandlerFinish)
  /\ WF_vars(RunCommandExit)

\* the runs whose command line has no --parallel and no --filter
InitFair == Init /\ cli.parallel = None /\ ~cli.filter.some

FairSpec == InitFair /\ [][Next]_vars /\ Fairness

\* ------------------------------------------- pass-rate specification
\* the summary of one test case for every iteration count, pass count and
\* threshold: the verdict computation of lines 766-780 applied to its inputs
InitRate ==
  /\ skill_dirs = <<>>
  /\ test_files = <<>>
  /\ cli = [parallel |-> None, cores |-> 1, filter |-> [some |-> FALSE, str |-> <<>>],
            no_error_log |-> FALSE]
  /\ InitRun
  /\ loader = NoLoader
  /\ procs = NoProcs
  /\ fs = NoFs
  /\ rate \in {r \in [state : {"input"}, iterations : 0..MaxRateIterations,
                      passed : 0..MaxRateIterations, threshold : 0..MaxRateThreshold,
                      verdict : {"None"}] : r.passed <= r.iterations}

JudgeTest ==
  /\ rate.state = "input"
  /\ LET flags == [j \in 1..rate.iterations |-> [assertion_passed |-> j <= rate.passed]]
         s == Summarize(<<1>>, flags, rate.iterations, rate.threshold)
     IN rate' = [rate EXCEPT !.state = "judged", !.verdict = s.verdict]
  /\ UNCHANGED <<inputs, pc, all_test_items, tasks, events, test_results, results,
                 summary, rcvd, collector, handler_pc, error_logs, LOG_SEQUENCE,
                 detailed_results, report, exit_code, loader, procs>>

NextRate == JudgeTest

SpecRate == InitRate /\ [][NextRate]_vars

\* ------------------------------------------------ loader specification
\* load_and_resolve_test_case on one test file, for test files of both
\* shapes whose assertions are written inline or referenced by name
\* char::is_whitespace, for the one-byte characters
Whitespace == {9, 10, 11, 12, 13, 32}

RECURSIVE TrimStart(_)
TrimStart(s) ==
  IF Len(s) > 0 /\ s[1] \in Whitespace THEN TrimStart(Tail(s)) ELSE s

RECURSIVE TrimEnd(_)
TrimEnd(s) ==
  IF Len(s) > 0 /\ s[Len(s)] \in Whitespace
    THEN TrimEnd(SubSeq(s, 1, Len(s) - 1))
    ELSE s

\* str::trim
Trim(s) == TrimEnd(TrimStart(s))

\* loader.rs 157-170
validate_simplified_test_case(case) ==
  IF Len(case.id) = 0 THEN Err("Validation")
  ELSE IF Len(case.prompt) = 0 THEN Err("Validation")
  ELSE Ok(case)

\* loader.rs 321-324: the first case that fails the validation, if any
RECURSIVE ValidateCases(_)
ValidateCases(cases) ==
  IF Len(cases) = 0 THEN Ok(<<>>)
  ELSE LET v == validate_simplified_test_case(cases[1])
       IN IF ~v.ok THEN v ELSE ValidateCases(Tail(cases))

\* Path::canonicalize of base_dir.join(path_str) on the disk of the model: the
\* directory skill/skill-tests holds a.yaml and b.yaml, its parent holds
\* x.yaml; a canonical path is the sequence of its components
canonicalize(path_str) ==
  CASE path_str \in {"a.yaml", "./a.yaml"} -> Ok(<<"skill", "skill-tests", "a.yaml">>)
    [] path_str = "b.yaml" -> Ok(<<"skill", "skill-tests", "b.yaml">>)
    [] path_str = "../x.yaml" -> Ok(<<"skill", "x.yaml">>)
    [] OTHER -> Err("FileNotFound")

\* loader.rs 269-270: the assertions the file holds
FileAssertions(canonical) ==
  IF canonical[Len(canonical)] = "a.yaml" THEN <<[kind |-> "inline", id |-> <<97>>]>>
  ELSE <<[kind |-> "inline", id |-> <<98>>]>>

RECURSIVE resolve_assertions_inner(_, _)
\* loader.rs 243-287: the loop over the paths of one file reference; st holds
\* resolved, seen_ids and visited_files, and reads, the files read so far (a
\* history field the program does not have). The assertions of the file go
\* through the duplicate check in file order, as the inline ones do
RECURSIVE ResolveFileRef(_, _)
ResolveFileRef(paths, st) ==
  IF Len(paths) = 0 THEN Ok(st)
  ELSE LET canonical == canonicalize(paths[1])
       IN IF ~canonical.ok THEN Err("FileNotFound")
  ELSE IF SubSeq(canonical.val, 1, 2) # <<"skill", "skill-tests">>
         THEN Err("FileRefOutsideSkillTests")
  ELSE IF canonical.val \in st.visited_files THEN Err("CircularReference")
  ELSE LET loaded == resolve_assertions_inner(
                       FileAssertions(canonical.val),
                       [st EXCEPT !.visited_files = @ \cup {canonical.val},
                                  !.reads = Append(@, canonical.val)])
       IN IF ~loaded.ok THEN loaded ELSE ResolveFileRef(Tail(paths), loaded.val)

\* loader.rs 211-293
resolve_assertions_inner(assertions, st) ==
  IF Len(assertions) = 0 THEN Ok(st)
  ELSE IF assertions[1].kind = "file"
    THEN LET r == ResolveFileRef(assertions[1].paths, st)
         IN IF ~r.ok THEN r ELSE resolve_assertions_inner(Tail(assertions), r.val)
  ELSE IF assertions[1].id \in st.seen_ids THEN Err("DuplicateAssertionId")
  ELSE resolve_assertions_inner(Tail(assertions),
         [st EXCEPT !.resolved = Append(@, assertions[1]),
                    !.seen_ids = @ \cup {assertions[1].id}])

\* loader.rs 188-209: every call starts from its own empty sets
resolve_assertions(assertions) ==
  resolve_assertions_inner(assertions,
    [resolved |-> <<>>, seen_ids |-> {}, visited_files |-> {}, reads |-> <<>>])

\* loader.rs 328-340
RECURSIVE ResolveCases(_, _)
ResolveCases(cases, result) ==
  IF Len(cases) = 0 THEN Ok(result)
  ELSE LET assertions == resolve_assertions(cases[1].assertions)
       IN IF ~assertions.ok THEN assertions
  ELSE LET golden_assertions == resolve_assertions(cases[1].golden_assertions)
       IN IF ~golden_assertions.ok THEN golden_assertions
  ELSE ResolveCases(Tail(cases),
         Append(result, [id |-> cases[1].id, prompt |-> cases[1].prompt,
                         assertions |-> assertions.val.resolved,
                         golden_assertions |-> golden_assertions.val.resolved,
                         reads |-> assertions.val.reads
                                     \o golden_assertions.val.reads]))

\* a reference list resolved without looking for repeated ids
RECURSIVE resolve_assertion_refs(_, _, _, _)
resolve_assertion_refs(refs, named_assertions, resolved, seen_ids) ==
  IF Len(refs) = 0 THEN Ok(resolved)
  ELSE IF refs[1].kind = "name" /\ refs[1].id \notin named_assertions
    THEN Err("UndefinedAssertionRef")
  ELSE resolve_assertion_refs(Tail(refs), named_assertions,
         Append(resolved, [kind |-> "inline", id |-> refs[1].id]), seen_ids)

\* loader.rs 471-503; a named assertion gets its name as id (types.rs 1206)
RECURSIVE resolve_assertion_refs_with_dup_check(_, _, _, _)
resolve_assertion_refs_with_dup_check(refs, named_assertions, resolved, seen_ids) ==
  IF Len(refs) = 0 THEN Ok(resolved)
  ELSE IF refs[1].kind = "name" /\ refs[1].id \notin named_assertions
    THEN Err("UndefinedAssertionRef")
  ELSE IF refs[1].id \in seen_ids THEN Err("DuplicateAssertionIdInScenario")
  ELSE resolve_assertion_refs_with_dup_check(Tail(refs), named_assertions,
         Append(resolved, [kind |-> "inline", id |-> refs[1].id]),
         seen_ids \cup {refs[1].id})

\* loader.rs 437-462: the loop of resolve_test_file over the scenarios, in
\* the iteration order of the map
RECURSIVE ResolveScenarios(_, _, _)
ResolveScenarios(test_file, order, resolved) ==
  IF Len(order) = 0 THEN Ok(resolved)
  ELSE LET name == order[1]
           scenario == test_file.scenarios[name]
       IN IF Len(Trim(scenario.prompt)) = 0 THEN Err("EmptyPrompt")
  ELSE LET assertions == resolve_assertion_refs_with_dup_check(
                           scenario.assertions, test_file.assertions, <<>>, {})
       IN IF ~assertions.ok THEN assertions
  ELSE LET golden_assertions == resolve_assertion_refs_with_dup_check(
                                  scenario.golden_assertions, test_file.assertions,
                                  <<>>, {})
       IN IF ~golden_assertions.ok THEN golden_assertions
  ELSE ResolveScenarios(test_file, Tail(order),
         Append(resolved, [name |-> name, prompt |-> scenario.prompt,
                           assertions |-> assertions.val,
                           golden_assertions |-> golden_assertions.val]))

\* loader.rs 427-468
resolve_test_file(test_file, order) ==
  LET r == ResolveScenarios(test_file, order, <<>>)
  IN IF r.ok THEN Ok(SortByName(r.val)) ELSE r

\* loader.rs 347-369
load_and_resolve_testfile_format(test_file, order) ==
  LET r == resolve_test_file(test_file, order)
  IN IF ~r.ok THEN r
     ELSE Ok([j \in 1..Len(r.val) |->
                [id |-> r.val[j].name, prompt |-> r.val[j].prompt,
                 assertions |-> r.val[j].assertions,
                 golden_assertions |-> r.val[j].golden_assertions]])

\* loader.rs 304-343, on the parsed content of the file
load_and_resolve_test_case(test_file, order) ==
  CASE test_file.shape = "unreadable" -> Err("Io")
    [] test_file.shape = "invalid_yaml" -> Err("Yaml")
    [] test_file.shape = "scenarios" -> load_and_resolve_testfile_format(test_file, order)
    [] OTHER -> LET v == ValidateCases(test_file.cases)
                IN IF ~v.ok THEN v ELSE ResolveCases(test_file.cases, <<>>)

Prompts == {<<>>, <<32>>, <<104>>, <<32, 104>>}

AssertionIds == {<<97>>, <<98>>}

InlineAssertions == [kind : {"inline"}, id : AssertionIds]

AssertionRefs ==
  [kind : {"name"}, id : AssertionIds] \cup {[kind |-> "inline", id |-> <<97>>]}

ScenarioNames == {<<115, 49>>, <<115, 50>>}

Scenarios ==
  [prompt : {<<>>, <<32>>, <<104>>},
   assertions : SeqsUpTo(AssertionRefs, 2),
   golden_assertions : SeqsUpTo(AssertionRefs, 2)]

\* a second scenario of the file: a sound one, one with a blank prompt and
\* one that names an assertion twice
OtherScenarios ==
  {[prompt |-> <<104>>, assertions |-> <<>>, golden_assertions |-> <<>>],
   [prompt |-> <<9, 32>>, assertions |-> <<>>, golden_assertions |-> <<>>],
   [prompt |-> <<104>>,
    assertions |-> <<[kind |-> "name", id |-> <<97>>], [kind |-> "name", id |-> <<97>>]>>,
    golden_assertions |-> <<>>]}

ScenarioFiles ==
  {[shape |-> "scenarios", assertions |-> named, scenarios |-> sc, cases |-> <<>>] :
     named \in {{<<97>>}, {<<97>>, <<98>>}},
     sc \in [{<<115, 49>>} -> Scenarios]
              \cup {f \in [ScenarioNames -> Scenarios \cup OtherScenarios] :
                      f[<<115, 50>>] \in OtherScenarios /\ f[<<115, 49>>] \in Scenarios}}

ListCases ==
  [id : {<<>>, <<1>>, <<1, 2>>}, prompt : Prompts,
   assertions : SeqsUpTo(InlineAssertions, 2),
   golden_assertions : SeqsUpTo({[kind |-> "inline", id |-> <<97>>]}, 1)]

\* AssertionOrFile (types.rs): an inline assertion, or a file reference with
\* one path or a list of paths
AssertionOrFiles ==
  InlineAssertions
    \cup {[kind |-> "file", paths |-> <<p>>] :
            p \in {"a.yaml", "./a.yaml", "b.yaml", "gone.yaml", "../x.yaml"}}
    \cup {[kind |-> "file", paths |-> ps] :
            ps \in {<<"a.yaml", "b.yaml">>, <<"a.yaml", "./a.yaml">>}}

ListFiles ==
  {[shape |-> "list", assertions |-> {}, scenarios |-> <<>>, cases |-> cs] :
     cs \in SeqsUpTo(ListCases, 1)
              \cup {<<a, b>> : a \in ListCases,
                               b \in {c \in ListCases : Len(c.assertions) = 0}}
              \cup {<<[id |-> <<1>>, prompt |-> <<104>>, assertions |-> as,
                       golden_assertions |-> gs]>> :
                      as \in SeqsUpTo(AssertionOrFiles, 2),
                      gs \in SeqsUpTo(AssertionOrFiles, 1)}}

BrokenFiles ==
  {[shape |-> sh, assertions |-> {}, scenarios |-> <<>>, cases |-> <<>>] :
     sh \in {"unreadable", "invalid_yaml"}}

InitLoader ==
  /\ skill_dirs = <<>>
  /\ test_files = <<>>
  /\ cli = [parallel |-> None, cores |-> 1, filter |-> [some |-> FALSE, str |-> <<>>],
            no_error_log |-> FALSE]
  /\ InitRun
  /\ rate = NoRate
  /\ procs = NoProcs
  /\ fs = NoFs
  /\ \E test_file \in ScenarioFiles \cup ListFiles \cup BrokenFiles :
       loader = [state |-> "input", test_file |-> test_file, result |-> Err("")]

\* one call of load_and_resolve_test_case by the scheduler (runner.rs 1128)
LoadAndResolveTestCase ==
  /\ loader.state = "input"
  /\ \E order \in Permutations2(DOMAIN loader.test_file.scenarios) :
       loader' = [loader EXCEPT
                    !.state = "resolved",
                    !.result = load_and_resolve_test_case(loader.test_file, order)]
  /\ UNCHANGED <<inputs, pc, all_test_items, tasks, events, test_results, results,
                 summary, rcvd, collector, handler_pc, error_logs, LOG_SEQUENCE,
                 detailed_results, report, exit_code, rate, procs>>

NextLoader == LoadAndResolveTestCase

SpecLoader == InitLoader /\ [][NextLoader]_vars

\* ------------------------------------------- command specification
\* run_command from its first line: the setup, then the scheduler, the
\* progress handler and the exit path, on small test files
NoEntry(kind) ==
  [kind |-> kind, skill_md |-> [state |-> "missing", name |-> <<>>],
   config_file |-> [state |-> "missing", config |-> DefaultConfig]]

DirEntry(md_state, name, cf_state, config) ==
  [kind |-> "dir", skill_md |-> [state |-> md_state, name |-> name],
   config_file |-> [state |-> cf_state, config |-> config]]

\* directories that differ in what discovery finds in them
DiscoveryEntries ==
  {NoEntry("missing"), NoEntry("file")}
    \cup {DirEntry(m, <<>>, "missing", DefaultConfig) :
            m \in {"missing", "no_frontmatter", "unclosed", "no_name"}}
    \cup {DirEntry("ok", n, c, DefaultConfig) :
            n \in SkillNames, c \in {"missing", "bad_yaml"}}

\* skill directories that differ in the hook settings of their config file
HookEntries(n) ==
  {DirEntry("ok", n, "missing", DefaultConfig)}
    \cup {DirEntry("ok", n, "ok",
                   [iterations |-> 1, threshold |-> 50, hook |-> h, hook_path |-> hp]) :
            h \in {"simple", "custom"}, hp \in {NoneStr, SomeStr(<<7>>)}}

PathArgs ==
  {[glob |-> TRUE, path |-> <<>>]} \cup {[glob |-> FALSE, path |-> p] : p \in Paths}

OneTest(nreq) == [id |-> <<1>>, iterations |-> 1, nreq |-> nreq, ngold |-> 0]

SmallLoadResults ==
  {[ok |-> FALSE, cases |-> <<>>], [ok |-> TRUE, cases |-> <<>>],
   [ok |-> TRUE, cases |-> <<OneTest(0)>>]}

CommandLine(args, format, hook, hook_path, iterations) ==
  [skill_dirs |-> args, cwd |-> <<1>>, format |-> format, hook |-> hook,
   hook_path |-> hook_path, iterations |-> iterations, parallel |-> 0, cores |-> 1,
   filter |-> [some |-> FALSE, str |-> <<>>], no_error_log |-> FALSE]

InitDiscovery ==
  /\ fs \in [Paths -> DiscoveryEntries]
  /\ \E args \in SeqsUpTo(PathArgs, 2), format \in {"table", "json", "xml"} :
       cli = CommandLine(args, format, NoHook, NoneStr, None)
  /\ test_files \in [SkillNames -> SmallLoadResults]

InitHooks ==
  /\ fs \in {f \in [Paths -> UNION {HookEntries(n) : n \in SkillNames}] :
               \A p \in Paths : f[p].skill_md.name = p}
  /\ \E args \in {<<[glob |-> FALSE, path |-> <<1>>]>>, <<[glob |-> TRUE, path |-> <<>>]>>},
        hook \in {NoHook} \cup {SomeStr(h) : h \in {"simple", "custom", "bogus"}},
        hook_path \in {NoneStr, SomeStr(<<8>>)},
        iterations \in {None, 1} :
       cli = CommandLine(args, "json", hook, hook_path, iterations)
  /\ test_files = [n \in SkillNames |->
                     IF n = <<1>> THEN [ok |-> TRUE, cases |-> <<OneTest(1)>>]
                     ELSE [ok |-> TRUE, cases |-> <<>>]]

InitCommand ==
  /\ InitDiscovery \/ InitHooks
  /\ skill_dirs = <<>>
  /\ pc = "cli"
  /\ all_test_items = <<>>
  /\ tasks = <<>>
  /\ events = <<>>
  /\ test_results = <<>>
  /\ results = <<>>
  /\ summary = [total_skills |-> 0, passed_skills |-> 0, failed_skills |-> 0,
                total_tests |-> 0, passed_tests |-> 0, failed_tests |-> 0]
  /\ rcvd = 0
  /\ collector = [n \in SkillNames |-> <<>>]
  /\ handler_pc = "recv"
  /\ error_logs = <<>>
  /\ LOG_SEQUENCE = 0
  /\ detailed_results = [n \in SkillNames |-> <<>>]
  /\ report = [printed |-> FALSE, skills |-> <<>>]
  /\ exit_code = None
  /\ rate = NoRate
  /\ loader = NoLoader
  /\ procs = NoProcs

NextCommand == RunCommandSetup \/ Next

SpecCommand == InitCommand /\ [][NextCommand]_vars

\* ------------------------------------------- process specification
\* two external-process calls of one run whose waits overlap, as the calls
\* of two test cases of the stream do: agent invocations (execute_claude),
\* exec assertion commands (evaluate_exec) and llm_eval agent calls
\* (evaluate_llm_eval), with the temp files the exec commands run on
\* what extract_code_block finds in the agent output: None or the content
\* of a block
Blocks == {NoneStr, SomeStr(<<1>>), SomeStr(<<2>>)}

\* the kill_on_drop setting of the Command each kind of call spawns:
\* claude.rs 232 and assertion.rs 185 set it, assertion.rs 118-122 leaves
\* the default, false
kill_on_drop(kind) == kind \in {"execute_claude", "evaluate_llm_eval"}

\* assertion.rs 95-107: temp_dir()/exec-<hash>.<ext>, the hash being the
\* first 8 bytes of the SHA-256 digest of the block content; two contents
\* of the model have different digests
temp_path(content) ==
  [name |-> "exec", hash |-> [hex_len |-> 16, digest_of |-> content], ext |-> "txt"]

Absent == [exists |-> FALSE, content |-> <<>>]

FileOf(content) == [exists |-> TRUE, content |-> content]

\* a call before its first poll; created and removed tell whether this
\* call created its temp file and whether it called remove_file
PendingCall(kind, block) ==
  [kind |-> kind, block |-> block, pc |-> "idle", child |-> "none",
   created |-> FALSE, removed |-> FALSE, result |-> "none"]

Returned(call, result) == [call EXCEPT !.pc = "returned", !.result = result]

\* assertion.rs 86-124, up to the await of the timeout: no block, an error
\* of File::create or of write_all, both by `?`, an error of the spawn inside
\* output(), or a running command; files is the state of the temp directory
evaluate_exec_start(call, files, io) ==
  LET content == call.block.str
      path == temp_path(content)
  IN IF ~call.block.some
       THEN [call |-> Returned(call, "ExecFailed"), files |-> files]
     ELSE IF io = "create_err"
       THEN [call |-> Returned(call, "Io"), files |-> files]
     ELSE IF io = "write_err"
       THEN [call |-> Returned([call EXCEPT !.created = TRUE], "Io"),
             files |-> [files EXCEPT ![path] = FileOf(<<>>)]]
     ELSE IF io = "spawn_err"
       THEN [call |-> Returned([call EXCEPT !.created = TRUE, !.removed = TRUE],
                               "ExecFailed"),
             files |-> [files EXCEPT ![path] = Absent]]
     ELSE [call |-> [call EXCEPT !.created = TRUE, !.pc = "waiting",
                                 !.child = "running"],
           files |-> [files EXCEPT ![path] = FileOf(content)]]

\* claude.rs 212-241 and assertion.rs 176-195, up to the await of the timeout
spawn_child(call, files, io) ==
  IF io = "ok"
    THEN [call |-> [call EXCEPT !.pc = "waiting", !.child = "running"],
          files |-> files]
    ELSE [call |-> Returned(call, "ExecutionFailed"), files |-> files]

\* assertion.rs 126-127: remove_file after the await, whatever it returned
CleanUp(call, files) ==
  IF call.kind = "evaluate_exec"
    THEN [call |-> [call EXCEPT !.removed = TRUE],
          files |-> [files EXCEPT ![temp_path(call.block.str)] = Absent]]
    ELSE [call |-> call, files |-> files]

ProcessUnchanged ==
  UNCHANGED <<inputs, pc, all_test_items, tasks, events, test_results, results,
              summary, rcvd, collector, handler_pc, error_logs, LOG_SEQUENCE,
              detailed_results, report, exit_code, rate, loader>>

InitProcess ==
  /\ skill_dirs = <<>>
  /\ test_files = <<>>
  /\ cli = [parallel |-> None, cores |-> 1, filter |-> [some |-> FALSE, str |-> <<>>],
            no_error_log |-> FALSE]
  /\ InitRun
  /\ rate = NoRate
  /\ loader = NoLoader
  /\ fs = NoFs
  /\ \E calls \in [1..2 -> {PendingCall(k, b) :
                               k \in {"execute_claude", "evaluate_exec",
                                      "evaluate_llm_eval"},
                               b \in Blocks}] :
       /\ \A c \in 1..2 : calls[c].kind # "evaluate_exec" => calls[c].block = NoneStr
       /\ procs = [calls |-> calls,
                   files |-> [p \in {temp_path(b.str) : b \in Blocks \ {NoneStr}}
                                |-> Absent]]

\* the first poll of a call, up to its await or its early return
CallStarts(c, io) ==
  /\ procs.calls[c].pc = "idle"
  /\ procs.calls[c].kind # "evaluate_exec" => io \in {"ok", "spawn_err"}
  /\ LET call == procs.calls[c]
         step == IF call.kind = "evaluate_exec"
                   THEN evaluate_exec_start(call, procs.files, io)
                   ELSE spawn_child(call, procs.files, io)
     IN procs' = [calls |-> [procs.calls EXCEPT ![c] = step.call],
                  files |-> step.files]
  /\ ProcessUnchanged

\* the child exits before the timeout: the await yields Ok(Ok(output)) and
\* the call runs to its return (claude.rs 243-286, assertion.rs 126-142 and
\* 197-224)
ChildExits(c, success) ==
  /\ procs.calls[c].pc = "waiting"
  /\ LET call == [procs.calls[c] EXCEPT !.child = "exited"]
         step == CleanUp(call, procs.files)
         result == IF success THEN "Ok(true)"
                   ELSE IF call.kind = "evaluate_exec" THEN "Ok(false)"
                   ELSE "ExecutionFailed"
     IN procs' = [calls |-> [procs.calls EXCEPT ![c] = Returned(step.call, result)],
                  files |-> step.files]
  /\ ProcessUnchanged

\* the timeout fires first: the await yields Err(Elapsed) and the future that
\* owns the child is dropped, which kills the child when kill_on_drop is set
\* (claude.rs 252-259, assertion.rs 132 and 204)
TimeoutFires(c) ==
  /\ procs.calls[c].pc = "waiting"
  /\ LET call == [procs.calls[c] EXCEPT
                    !.child = IF kill_on_drop(procs.calls[c].kind) THEN "killed"
                              ELSE "running"]
         step == CleanUp(call, procs.files)
     IN procs' = [calls |-> [procs.calls EXCEPT ![c] = Returned(step.call, "Timeout")],
                  files |-> step.files]
  /\ ProcessUnchanged

\* a child that was left running by its call exits on its own
OrphanExits(c) ==
  /\ procs.calls[c].pc = "returned"
  /\ procs.calls[c].child = "running"
  /\ procs' = [procs EXCEPT !.calls[c].child = "exited"]
  /\ ProcessUnchanged

NextProcess ==
  \/ \E c \in 1..2, io \in {"ok", "create_err", "write_err", "spawn_err"} :
       CallStarts(c, io)
  \/ \E c \in 1..2, success \in BOOLEAN : ChildExits(c, success)
  \/ \E c \in 1..2 : TimeoutFires(c)
  \/ \E c \in 1..2 : OrphanExits(c)

SpecProcess == InitProcess /\ [][NextProcess]_vars

\* ------------------------------------------------- properties of the log
\* the events one scheduled test case sent, in send order
TaskEvents(t) ==
  SelectSeq(events, LAMBDA e : e.kind \in TaskKinds /\ e.task = t)

\* the events that carry one (skill, test id) pair, in send order
PairEvents(s, id) ==
  SelectSeq(events, LAMBDA e : e.kind \in TaskKinds /\ e.skill_name = s /\ e.test_id = id)

\* cur may directly follow prev in the events of a test of n iterations
StepOk(prev, cur, n) ==
  CASE prev.kind = "TestStarted" ->
         \/ cur.kind = "IterationStarted" /\ cur.iteration = 1 /\ n >= 1
         \/ cur.kind = "TestCompleted" /\ n = 0
    [] prev.kind \in {"IterationStarted", "AssertionResult"} ->
         /\ cur.kind \in {"AssertionResult", "IterationCompleted"}
         /\ cur.iteration = prev.iteration
    [] prev.kind = "IterationCompleted" ->
         \/ /\ cur.kind = "IterationStarted"
            /\ cur.iteration = prev.iteration + 1
            /\ prev.iteration < n
         \/ cur.kind = "TestCompleted" /\ prev.iteration = n
    [] OTHER -> FALSE

\* TestStarted, then for i = 1..n IterationStarted(i), AssertionResult(i)*,
\* IterationCompleted(i), then TestCompleted; q may be a prefix of that
EventOrder(q) ==
  Len(q) > 0 =>
    /\ q[1].kind = "TestStarted"
    /\ \A j \in 2..Len(q) : StepOk(q[j - 1], q[j], q[1].total_iterations)

\* C1 as stated: for every (skill, test id) pair the events that carry the pair
\* are ordered TestStarted, then per iteration i = 1..n IterationStarted(i),
\* the AssertionResult(i) events, IterationCompleted(i), then TestCompleted.
C1_PairOrdered ==
  \A s \in SkillNames, id \in TestIds : EventOrder(PairEvents(s, id))

\* C1 read per scheduled test case instead of per pair: the events a test
\* case sent carry its skill and test id and are ordered TestStarted, then
\* per iteration i = 1..n IterationStarted(i), the AssertionResult(i) events,
\* IterationCompleted(i), then TestCompleted, which ends a completed test.
C1_TaskOrdered ==
  \A t \in 1..Len(tasks) :
    LET q == TaskEvents(t)
    IN /\ EventOrder(q)
       /\ \A j \in 1..Len(q) :
            /\ q[j].skill_name = tasks[t].skill_dir.name
            /\ q[j].test_id = tasks[t].test_case.id
       /\ Len(q) > 0 =>
            q[1].total_iterations = IterationsOf(tasks[t].test_case, tasks[t].skill_dir)
       /\ tasks[t].state = "pending" <=> Len(q) = 0
       /\ tasks[t].state = "done" <=> (Len(q) > 0 /\ q[Len(q)].kind = "TestCompleted")

\* a finished run in which a test of two iterations ran to its end while
\* another test's events fell between its own
C1_Witness ==
  /\ pc = "exited"
  /\ \E t \in 1..Len(tasks) :
       /\ Len(tasks[t].detailed_iterations) = 2
       /\ \E a, b, c \in 1..Len(events) :
            /\ a < b /\ b < c
            /\ events[a].kind \in TaskKinds /\ events[a].task = t
            /\ events[b].kind \in TaskKinds /\ events[b].task # t
            /\ events[c].kind \in TaskKinds /\ events[c].task = t

\* the tasks whose event of the given kind is in the log
TasksWith(kind) ==
  {events[j].task : j \in {i \in 1..Len(events) : events[i].kind = kind}}

\* the limit N of the command line: --parallel N, 1 for --parallel 0, the
\* core count when the option is omitted
ParallelLimit ==
  IF cli.parallel = None THEN cli.cores
  ELSE IF cli.parallel = 0 THEN 1
  ELSE cli.parallel

\* C2: at every moment the number of test cases that have sent TestStarted
\* and not yet TestCompleted is at most N, where --parallel 0 counts as 1.
C2_InFlightBounded ==
  Cardinality(TasksWith("TestStarted") \ TasksWith("TestCompleted")) <= ParallelLimit

\* the limit is reached while a test case still waits to be started
C2_Witness ==
  /\ pc = "running"
  /\ Cardinality(TasksWith("TestStarted") \ TasksWith("TestCompleted")) = ParallelLimit
  /\ \E t \in 1..Len(tasks) : tasks[t].state = "pending"

\* the positions of the events of one kind that carry one skill name
SkillEventsAt(kind, s) ==
  {j \in 1..Len(events) : events[j].kind = kind /\ events[j].skill_name = s}

\* C3: for every skill, one SkillStarted precedes the skill's first
\* TestStarted, and one SkillCompleted follows the skill's last TestCompleted,
\* sent when every test of the skill has completed.
C3_SkillBrackets ==
  \A i \in 1..Len(skill_dirs) :
    LET s == skill_dirs[i].name
        ss == SkillEventsAt("SkillStarted", s)
        sc == SkillEventsAt("SkillCompleted", s)
        ts == SkillEventsAt("TestStarted", s)
        tc == SkillEventsAt("TestCompleted", s)
        scheduled == TestsPerSkill(all_test_items, s)
    IN /\ Cardinality(ss) <= 1
       /\ Cardinality(sc) <= 1
       /\ \A j \in ts : \E k \in ss : k < j
       /\ \A j \in sc :
            /\ \A k \in ss \cup ts \cup tc : k < j
            /\ Cardinality(ts) = scheduled
            /\ Cardinality(tc) = scheduled
       /\ (pc \in {"waiting", "exited"} /\ Len(events) > 0) => Cardinality(sc) = 1

\* a finished run of two skills in which a test of one skill started while a
\* test of the other was running
C3_Witness ==
  /\ pc = "exited"
  /\ \E a, b, c \in 1..Len(events) :
       /\ a < b /\ b < c
       /\ events[a].kind = "TestStarted"
       /\ events[b].kind = "TestStarted"
       /\ events[c].kind = "TestCompleted"
       /\ events[a].skill_name # events[b].skill_name
       /\ events[c].task = events[a].task

\* C4: exactly one AllTestsStarted is sent per run that loads its tests, and
\* it is the first event on the channel.
C4_AllTestsStartedFirst ==
  /\ (pc \in {"running", "waiting"} \/ (pc = "exited" /\ exit_code # EXECUTION_ERROR))
       => Len(events) > 0
  /\ Len(events) > 0 =>
       /\ events[1].kind = "AllTestsStarted"
       /\ \A j \in 2..Len(events) : events[j].kind # "AllTestsStarted"

\* a finished run whose log holds the events of two skills and of a test
C4_Witness ==
  /\ pc = "exited"
  /\ \E a, b, c \in 2..Len(events) :
       /\ a < b /\ b < c
       /\ events[a].kind = "SkillStarted"
       /\ events[b].kind = "SkillStarted"
       /\ events[c].kind = "TestCompleted"

\* ------------------------------------------- properties of the iterations
\* the positions of the events of one kind that one task sent for iteration i
IterationEventsAt(kind, t, i) ==
  {j \in 1..Len(events) :
     events[j].kind = kind /\ events[j].task = t /\ events[j].iteration = i}

\* C5: an iteration whose agent invocation failed is recorded as a failed
\* iteration with exactly one assertion record, of type "execution"; its
\* IterationCompleted carries passed = false; the test case goes on to run
\* iterations i+1..n and completes with n iteration records; the run is not
\* aborted.
C5_ExecutionFailureRecorded ==
  /\ (pc = "exited" /\ Len(events) > 0) => exit_code \in {SUCCESS, THRESHOLD_NOT_MET}
  /\ \A t \in 1..Len(tasks) :
       LET task == tasks[t]
           n == IterationsOf(task.test_case, task.skill_dir)
       IN /\ task.state = "done" => Len(task.detailed_iterations) = n
          /\ \A i \in 1..Len(task.history) :
               ~task.history[i].exec =>
                 /\ i <= Len(task.detailed_iterations)
                 /\ LET rec == task.detailed_iterations[i]
                    IN /\ rec.iteration = i
                       /\ ~rec.passed
                       /\ Len(rec.assertions) = 1
                       /\ rec.assertions[1].assertion_type = "execution"
                       /\ ~rec.assertions[1].passed
                       /\ rec.golden_assertions = <<>>
                 /\ Cardinality(IterationEventsAt("IterationCompleted", t, i)) = 1
                 /\ \A j \in IterationEventsAt("IterationCompleted", t, i) :
                      ~events[j].passed
                 /\ IterationEventsAt("AssertionResult", t, i) = {}
                 /\ IF i < n
                      THEN IterationEventsAt("IterationStarted", t, i + 1) # {}
                      ELSE task.state = "done"

\* a finished run in which the agent failed in the first iteration of a test
\* and answered in the second
C5_Witness ==
  /\ pc = "exited"
  /\ \E t \in 1..Len(tasks) :
       /\ Len(tasks[t].history) = 2
       /\ ~tasks[t].history[1].exec
       /\ tasks[t].history[2].exec
       /\ Len(tasks[t].detailed_iterations) = 2

RequiredAllPassed(task, i) ==
  \A k \in 1..task.test_case.nreq :
    /\ k <= Len(task.history[i].outcomes)
    /\ task.history[i].outcomes[k] = "pass"

\* C7 as stated: for every iteration record, passed is true exactly when every
\* required assertion of the test case passed.
C7_PassedIffRequired ==
  \A t \in 1..Len(tasks) : \A i \in 1..Len(tasks[t].detailed_iterations) :
    tasks[t].detailed_iterations[i].passed <=> RequiredAllPassed(tasks[t], i)

\* C7 amended: for every iteration record, passed is true exactly when the
\* agent invocation succeeded and every required assertion passed; the pass
\* count and the verdict of a test are those of the iterations so counted,
\* whatever the golden assertions returned.
C7_PassedIffExecutedAndRequired ==
  \A t \in 1..Len(tasks) :
    LET task == tasks[t]
        good == {i \in 1..Len(task.detailed_iterations) :
                   task.history[i].exec /\ RequiredAllPassed(task, i)}
    IN /\ \A i \in 1..Len(task.detailed_iterations) :
            task.detailed_iterations[i].passed <=> i \in good
       /\ task.state = "done" =>
            LET q == TaskEvents(t)
                n == IterationsOf(task.test_case, task.skill_dir)
                result == q[Len(q)].result
            IN /\ result.passed = Cardinality(good)
               /\ result.failed = n - Cardinality(good)
               /\ result.verdict =
                    VerdictOf(Cardinality(good), n, task.skill_dir.config.threshold)

\* a finished run with a passed test in which a golden assertion failed in an
\* iteration that passed
C7_Witness ==
  /\ pc = "exited"
  /\ \E t \in 1..Len(tasks) : \E i \in 1..Len(tasks[t].detailed_iterations) :
       /\ tasks[t].detailed_iterations[i].passed
       /\ tasks[t].test_case.nreq >= 1
       /\ \E k \in 1..Len(tasks[t].detailed_iterations[i].golden_assertions) :
            ~tasks[t].detailed_iterations[i].golden_assertions[k].passed
       /\ \E j \in 1..Len(events) :
            /\ events[j].kind = "TestCompleted"
            /\ events[j].task = t
            /\ events[j].result.verdict = "Pass"

\* ------------------------------------------------ properties of verdicts
\* C8: for every iteration count, pass count and threshold the verdict of a
\* test is Pass exactly when 100 * passed / iterations >= threshold, the rate
\* taken as the exact quotient.
C8_VerdictByExactRate ==
  (rate.state = "judged" /\ rate.iterations > 0) =>
    (rate.verdict = "Pass" <=> 100 * rate.passed >= rate.threshold * rate.iterations)

\* the verdicts of the tests of one skill, as their TestCompleted events
\* carry them
TestVerdicts(s) ==
  {events[j].result.verdict : j \in SkillEventsAt("TestCompleted", s)}

\* C9: when a run completes, the verdict of a skill is Pass exactly when
\* every test of the skill has verdict Pass, and the exit code is 0 when every
\* skill passed and 1 when a skill failed.
C9_SkillVerdictAndExitCode ==
  (pc = "exited" /\ exit_code # EXECUTION_ERROR) =>
    /\ Len(results) = Len(skill_dirs)
    /\ {results[j].name : j \in 1..Len(results)}
         = {skill_dirs[i].name : i \in 1..Len(skill_dirs)}
    /\ \A j \in 1..Len(results) :
         /\ results[j].verdict = "Pass" <=> TestVerdicts(results[j].name) \subseteq {"Pass"}
         /\ \A k \in SkillEventsAt("SkillCompleted", results[j].name) :
              events[k].verdict = results[j].verdict
    /\ exit_code = IF \A i \in 1..Len(skill_dirs) :
                        TestVerdicts(skill_dirs[i].name) \subseteq {"Pass"}
                     THEN SUCCESS
                     ELSE THRESHOLD_NOT_MET

\* a run that exits with 1 because a skill has a passed and a failed test
C9_Witness ==
  /\ pc = "exited"
  /\ exit_code = THRESHOLD_NOT_MET
  /\ \E i \in 1..Len(skill_dirs) : TestVerdicts(skill_dirs[i].name) = {"Pass", "Fail"}

\* s is in ascending order of StrLess, equal neighbours allowed
AscendingNames(s) == \A j \in 1..(Len(s) - 1) : ~StrLess(s[j + 1], s[j])

\* how often the name x occurs in the sequence of names s
Occurrences(s, x) == Cardinality({j \in 1..Len(s) : s[j] = x})

\* C10: the report of --format json lists the skills of the run in ascending
\* order of their names and, within each skill, the names of the scheduled
\* tests of the skill in ascending order, whatever order the tests completed
\* in.
C10_ReportSortedByName ==
  report.printed =>
    LET skill_names == [j \in 1..Len(report.skills) |-> report.skills[j].skill_name]
    IN /\ AscendingNames(skill_names)
       /\ Len(skill_names) = Len(skill_dirs)
       /\ \A i \in 1..Len(skill_dirs) : Occurrences(skill_names, skill_dirs[i].name) = 1
       /\ \A j \in 1..Len(report.skills) :
            LET tests == report.skills[j].tests
                test_names == [k \in 1..Len(tests) |-> tests[k].name]
                scheduled == SelectSeq(all_test_items,
                               LAMBDA it : it.skill_dir.name = skill_names[j])
                ids == [k \in 1..Len(scheduled) |-> scheduled[k].test_case.id]
            IN /\ AscendingNames(test_names)
               /\ Len(test_names) = Len(ids)
               /\ \A id \in TestIds : Occurrences(test_names, id) = Occurrences(ids, id)

\* a printed report of a run whose skills were given in descending order and
\* in which the tests of a skill completed in descending order of their names
C10_Witness ==
  /\ report.printed
  /\ Len(skill_dirs) = 2
  /\ StrLess(skill_dirs[2].name, skill_dirs[1].name)
  /\ \E n \in SkillNames :
       /\ Len(collector[n]) = 2
       /\ StrLess(collector[n][2].name, collector[n][1].name)

\* C11: the result the scheduler returns holds one entry per skill of the run,
\* the entries in ascending order of the skill names, every entry holding the
\* results of the scheduled tests of its skill in ascending order of the test
\* ids, whatever order the tests completed in.
C11_AggregatedSorted ==
  pc \in {"waiting", "exited"} /\ exit_code # EXECUTION_ERROR =>
    LET skill_names == [j \in 1..Len(results) |-> results[j].name]
    IN /\ AscendingNames(skill_names)
       /\ Len(skill_names) = Len(skill_dirs)
       /\ \A i \in 1..Len(skill_dirs) : Occurrences(skill_names, skill_dirs[i].name) = 1
       /\ \A j \in 1..Len(results) :
            LET test_ids == [k \in 1..Len(results[j].tests) |-> results[j].tests[k].id]
                scheduled == SelectSeq(all_test_items,
                               LAMBDA it : it.skill_dir.name = skill_names[j])
                ids == [k \in 1..Len(scheduled) |-> scheduled[k].test_case.id]
            IN /\ AscendingNames(test_ids)
               /\ Len(test_ids) = Len(ids)
               /\ \A id \in TestIds : Occurrences(test_ids, id) = Occurrences(ids, id)

\* the detailed results of the tests of skill n that ran, in completion order
RanTests(n) ==
  LET done == SelectSeq(events, LAMBDA e : e.kind = "TestCompleted" /\ e.skill_name = n)
  IN [k \in 1..Len(done) |-> done[k].detailed]

\* the calls of write_skill_error_log for the log directory of skill n
LogWritesOf(n) == SelectSeq(error_logs, LAMBDA w : w.dir = n)

\* the log files this run left in the log directory of skill n
LogFilesOf(n) == SelectSeq(error_logs, LAMBDA w : w.dir = n /\ w.io = "ok")

\* w reports skill n alone, with the detailed result of every test of n
\* that ran
ReportsExactly(w, n, verdict) ==
  /\ Len(w.skills) = 1
  /\ w.skills[1].skill_name = n
  /\ w.skills[1].verdict = verdict
  /\ w.skills[1].tests = RanTests(n)
  /\ Len(w.skills[1].tests) =
       Len(SelectSeq(all_test_items, LAMBDA it : it.skill_dir.name = n))

C13_DistinctSequence ==
  \A a, b \in 1..Len(error_logs) :
    a # b /\ error_logs[a].seq # None /\ error_logs[b].seq # None =>
      /\ error_logs[a].seq # error_logs[b].seq
      /\ <<error_logs[a].ts, error_logs[a].seq>> # <<error_logs[b].ts, error_logs[b].seq>>

\* two log files written in the same millisecond of one run
C13_Witness ==
  \E a, b \in 1..Len(error_logs) :
    /\ a # b
    /\ error_logs[a].io = "ok" /\ error_logs[b].io = "ok"
    /\ error_logs[a].ts = error_logs[b].ts

\* the test file of some skill of the run fails to load or to resolve
LoaderFailed == \E i \in 1..Len(skill_dirs) : ~test_files[skill_dirs[i].name].ok

\* C14 as stated: a run in which the loader returns an error ends with exit
\* code 2.
C14_LoaderErrorExits2 ==
  pc = "exited" /\ LoaderFailed => exit_code = CONFIG_ERROR

\* C14 amended: a run in which the loader returns an error for a test file
\* has nothing left to do but exit, and it exits with code 3; no run without
\* a loader error exits with 3.
C14_LoaderErrorExits3 ==
  /\ LoaderFailed => pc \in {"start", "exited"}
  /\ pc = "exited" => (LoaderFailed <=> exit_code = EXECUTION_ERROR)

\* a run of two skills that exited with 3: the test file of the first skill
\* loaded with a test case in it, the test file of the second one did not
C14_Witness ==
  /\ pc = "exited"
  /\ exit_code = EXECUTION_ERROR
  /\ Len(skill_dirs) = 2
  /\ Len(test_files[skill_dirs[1].name].cases) > 0
  /\ ~test_files[skill_dirs[2].name].ok

\* C16: a run in which a test file fails to load or to resolve sends no
\* progress event, creates no test task and so invokes no agent, and calls
\* the log writer for no skill, up to and including its exit.
C16_LoadFailureHasNoEffect ==
  LoaderFailed =>
    /\ events = <<>>
    /\ rcvd = 0
    /\ tasks = <<>>
    /\ all_test_items = <<>>
    /\ error_logs = <<>>
    /\ LOG_SEQUENCE = 0
    /\ ~report.printed

\* a run that exited on the failed test file of its first skill while the
\* test file of its second skill holds a test case with agent calls to make
C16_Witness ==
  /\ pc = "exited"
  /\ Len(skill_dirs) = 2
  /\ ~test_files[skill_dirs[1].name].ok
  /\ \E j \in 1..Len(test_files[skill_dirs[2].name].cases) :
       CallsOf(test_files[skill_dirs[2].name].cases[j], skill_dirs[2]) > 0

\* discovery is reached and fails: resolving the path arguments or detecting
\* a resolved skill directory returns an error
DiscoveryFailed ==
  /\ "format" \in DOMAIN cli
  /\ cli.format \in {"table", "json"}
  /\ LET skill_paths == resolve_skill_paths(fs, cli.skill_dirs, cli.cwd)
     IN \/ ~skill_paths.ok
        \/ ~detect_skill_dirs(fs, skill_paths.val).ok

\* C15 as stated: a run in which the discovery of a skill fails, or in which
\* the test file of a skill fails to resolve, ends with exit code 3.
C15_FailureExits3 ==
  pc = "exited" /\ (DiscoveryFailed \/ LoaderFailed) => exit_code = EXECUTION_ERROR

\* C15 amended: a run in which the discovery of a skill fails (missing
\* directory, missing or malformed SKILL.md, missing or duplicate name, bad
\* config file) never reaches the scheduler and ends with exit code 2; a run
\* in which the test file of a discovered skill fails to resolve ends with
\* exit code 3 before the first test starts.
C15_DiscoveryExits2ResolutionExits3 ==
  /\ DiscoveryFailed =>
       /\ pc \in {"cli", "exited"}
       /\ skill_dirs = <<>>
       /\ events = <<>>
       /\ pc = "exited" => exit_code = CONFIG_ERROR
  /\ LoaderFailed =>
       /\ pc \in {"start", "exited"}
       /\ tasks = <<>>
       /\ pc = "exited" => exit_code = EXECUTION_ERROR

\* a run that exited with 2 because two paths of the command line hold
\* skills of one name
C15_Witness ==
  /\ pc = "exited"
  /\ exit_code = CONFIG_ERROR
  /\ "format" \in DOMAIN cli
  /\ resolve_skill_paths(fs, cli.skill_dirs, cli.cwd).ok
  /\ detect_skill_dirs(fs, resolve_skill_paths(fs, cli.skill_dirs, cli.cwd).val).err
       = "DuplicateName"

\* the hook settings validate_config accepts
HookConsistent(config) == config.hook_path.some <=> config.hook = "custom"

\* C17: every configuration the scheduler is called with has hook_path set
\* exactly when its hook is custom, the command-line overrides included.
C17_SchedulerConfigsValid ==
  pc # "cli" =>
    \A i \in 1..Len(skill_dirs) : HookConsistent(skill_dirs[i].config)

\* the iteration records of the events, the error logs and the printed
\* report, each with the task and the iteration it belongs to
IterationRecords ==
  {[task |-> events[j].task, rec |-> events[j].detailed] :
     j \in {i \in 1..Len(events) : events[i].kind = "IterationCompleted"}}
    \cup UNION {{[task |-> events[j].task, rec |-> events[j].detailed.iterations[k]] :
                   k \in 1..Len(events[j].detailed.iterations)} :
                 j \in {i \in 1..Len(events) : events[i].kind = "TestCompleted"}}

\* C18: the output_hash of every iteration record of an event is the 64
\* character SHA-256 digest of the whole text the agent answered in that
\* iteration, the empty text when the agent call failed, also when the stored
\* output is truncated.
C18_OutputHashOfFullOutput ==
  \A r \in IterationRecords :
    /\ r.rec.output_hash.hex_len = 64
    /\ r.rec.output_hash =
         compute_output_hash(tasks[r.task].history[r.rec.iteration].output)

\* s holds no value twice
Distinct(s) == \A i, j \in 1..Len(s) : i # j => s[i] # s[j]

RefIds(refs) == [j \in 1..Len(refs) |-> refs[j].id]

\* a scenario that resolves but for repeated ids: its prompt is not blank and
\* every name it refers to is defined in the file
ResolvableScenario(test_file, sc) ==
  /\ \E j \in 1..Len(sc.prompt) : sc.prompt[j] \notin Whitespace
  /\ \A j \in 1..Len(sc.assertions) :
       sc.assertions[j].kind = "name" => sc.assertions[j].id \in test_file.assertions
  /\ \A j \in 1..Len(sc.golden_assertions) :
       sc.golden_assertions[j].kind = "name" =>
         sc.golden_assertions[j].id \in test_file.assertions

\* the ids of each of the two lists of the scenario are pairwise distinct
ListsDistinct(sc) ==
  /\ Distinct(RefIds(sc.assertions))
  /\ Distinct(RefIds(sc.golden_assertions))

\* C19: a scenarios-shape test file resolves only if in every scenario the
\* assertion ids are pairwise distinct within the required list and within
\* the golden list; when nothing else is wrong with the file a repeated id
\* inside one list yields DuplicateAssertionIdInScenario, and a file whose
\* lists are distinct resolves, also when an id occurs once in either list.
C19_DistinctWithinEachList ==
  loader.state = "resolved" /\ loader.test_file.shape = "scenarios" =>
    LET f == loader.test_file
        names == DOMAIN f.scenarios
    IN /\ loader.result.ok => \A n \in names : ListsDistinct(f.scenarios[n])
       /\ (\A n \in names : ResolvableScenario(f, f.scenarios[n])) =>
            IF \A n \in names : ListsDistinct(f.scenarios[n])
              THEN /\ loader.result.ok
                   /\ Len(loader.result.val) = Cardinality(names)
              ELSE loader.result.err = "DuplicateAssertionIdInScenario"

\* a resolved file with a scenario in which one id is once in the required
\* list and once in the golden list
C19_Witness ==
  /\ loader.state = "resolved"
  /\ loader.test_file.shape = "scenarios"
  /\ loader.result.ok
  /\ \E j \in 1..Len(loader.result.val) :
       /\ Len(loader.result.val[j].assertions) = 2
       /\ Len(loader.result.val[j].golden_assertions) = 1
       /\ loader.result.val[j].golden_assertions[1].id
            = loader.result.val[j].assertions[2].id

\* the prompts of the test cases the file holds, whatever its shape
FilePrompts(f) ==
  {f.cases[j].prompt : j \in 1..Len(f.cases)}
    \cup {f.scenarios[n].prompt : n \in DOMAIN f.scenarios}

Blank(prompt) == \A j \in 1..Len(prompt) : prompt[j] \in Whitespace

\* C20: a test file of either shape that holds a test case whose prompt is
\* empty or all white space fails to load, so that no such test case is
\* handed to the scheduler.
C20_BlankPromptRejected ==
  loader.state = "resolved" =>
    /\ (\E prompt \in FilePrompts(loader.test_file) : Blank(prompt)) => ~loader.result.ok
    /\ loader.result.ok =>
         \A j \in 1..Len(loader.result.val) : ~Blank(loader.result.val[j].prompt)

\* the detailed records of the IterationCompleted events one scheduled test
\* case sent, in send order
SentRecords(t) ==
  LET sent == SelectSeq(events, LAMBDA e : e.kind = "IterationCompleted" /\ e.task = t)
  IN [k \in 1..Len(sent) |-> sent[k].detailed]

\* the TestCompleted events one scheduled test case sent
CompletedEvents(t) ==
  SelectSeq(events, LAMBDA e : e.kind = "TestCompleted" /\ e.task = t)

\* C21: for every scheduled test case, the detailed result its TestCompleted
\* event carries holds as iterations exactly the detailed records of the
\* IterationCompleted events the test case sent, in send order, one per
\* iteration; the printed report holds for every skill exactly the detailed
\* results of the TestCompleted events of the skill, each unchanged.
C21_RecordsAgree ==
  /\ \A t \in 1..Len(tasks) :
       LET recs == SentRecords(t)
           done == CompletedEvents(t)
       IN /\ \A k \in 1..Len(recs) : recs[k].iteration = k
          /\ Len(done) <= 1
          /\ \A k \in 1..Len(done) : done[k].detailed.iterations = recs
          /\ tasks[t].state = "done" =>
               /\ Len(done) = 1
               /\ Len(recs) = IterationsOf(tasks[t].test_case, tasks[t].skill_dir)
  /\ report.printed =>
       \A j \in 1..Len(report.skills) :
         LET tests == report.skills[j].tests
             ran == RanTests(report.skills[j].skill_name)
         IN /\ Len(tests) = Len(ran)
            /\ \A k \in 1..Len(tests) :
                 Occurrences(tests, tests[k]) = Occurrences(ran, tests[k])

\* a printed report with a test of two iterations, the agent call of the
\* first failed and the second answered
C21_Witness ==
  /\ report.printed
  /\ \E j \in 1..Len(report.skills) : \E k \in 1..Len(report.skills[j].tests) :
       LET its == report.skills[j].tests[k].iterations
       IN /\ Len(its) = 2
          /\ ~its[1].passed
          /\ its[2].passed
          /\ Len(its[2].output) > 0

\* C22: a call of any of the three kinds (agent invocation, exec assertion
\* command, llm_eval agent call) that returned because its timeout fired has
\* killed the child it spawned, and no returned call has left its child
\* running.
C22_TimeoutKillsChild ==
  \A c \in 1..2 :
    procs.calls[c].pc = "returned" =>
      /\ procs.calls[c].result = "Timeout" => procs.calls[c].child = "killed"
      /\ procs.calls[c].child # "running"

\* C23: while the command of an exec assertion evaluation runs, the temp file
\* it was given exists and holds the block content of that evaluation,
\* whatever another evaluation of the same content does to its temp file in
\* the meantime.
C23_TempFileIntact ==
  \A c \in 1..2 :
    procs.calls[c].kind = "evaluate_exec" /\ procs.calls[c].pc = "waiting" =>
      procs.files[temp_path(procs.calls[c].block.str)]
        = FileOf(procs.calls[c].block.str)

\* C24: an exec assertion evaluation that created its temp file and has
\* returned (command success, expectation not met, spawn error, write error,
\* timeout) has deleted the file; with no other evaluation on that file the
\* file is gone.
C24_TempFileDeleted ==
  \A c \in 1..2 :
    LET call == procs.calls[c]
    IN call.kind = "evaluate_exec" /\ call.pc = "returned" /\ call.created =>
         /\ call.removed
         /\ (\A d \in 1..2 : d # c => procs.calls[d].block # call.block) =>
              ~procs.files[temp_path(call.block.str)].exists

\* the agent call of a later iteration of the completed test case failed
\* after the agent had answered in an earlier iteration
PartialFailure(t) ==
  /\ tasks[t].state = "done"
  /\ \E i, k \in 1..Len(tasks[t].history) :
       k < i /\ tasks[t].history[k].exec /\ ~tasks[t].history[i].exec

\* the skill of the name has verdict Fail in the result of the scheduler
SkillFailed(s) ==
  \E j \in 1..Len(results) : results[j].name = s /\ results[j].verdict = "Fail"

\* a call of the log writer for the skill was handed the detailed result
LogHolds(s, detailed) ==
  \E k \in 1..Len(LogWritesOf(s)) :
    \E x \in 1..Len(LogWritesOf(s)[k].skills[1].tests) :
      LogWritesOf(s)[k].skills[1].tests[x] = detailed

\* C25 as stated: a run with a test case in which the agent failed after
\* earlier iterations ran has sent a SkillError event for the skill, its
\* skill has verdict Fail, and the log writer was handed the iteration
\* records of the test case.
C25_SkillErrorDelivered ==
  pc = "exited" =>
    \A t \in 1..Len(tasks) :
      PartialFailure(t) =>
        LET s == tasks[t].skill_dir.name
        IN /\ \E j \in 1..Len(events) :
                events[j].kind = "SkillError" /\ events[j].skill_name = s
           /\ SkillFailed(s)
           /\ LogHolds(s, CompletedEvents(t)[1].detailed)

\* C25 amended: no SkillError event is ever sent. A test case in which the
\* agent failed after earlier iterations ran completes with one record per
\* iteration, a failed "execution" record for the failed call and the
\* unchanged record of every iteration that ran, all of them counted in the
\* pass rate that decides the verdict; the log writer is handed these records
\* exactly when the verdict of the skill is Fail.
C25_ExecutionErrorDemoted ==
  /\ \A j \in 1..Len(events) : events[j].kind # "SkillError"
  /\ \A t \in 1..Len(tasks) :
       PartialFailure(t) =>
         LET task == tasks[t]
             s == task.skill_dir.name
             n == IterationsOf(task.test_case, task.skill_dir)
             done == CompletedEvents(t)
         IN /\ Len(done) = 1
            /\ Len(done[1].detailed.iterations) = n
            /\ Len(task.history) = n
            /\ \A k \in 1..n :
                 LET rec == done[1].detailed.iterations[k]
                 IN /\ rec.iteration = k
                    /\ rec = SentRecords(t)[k]
                    /\ IF task.history[k].exec
                         THEN rec.output = truncate_utf8(task.history[k].output,
                                                         MaxOutputChars)
                         ELSE /\ ~rec.passed
                              /\ Len(rec.assertions) = 1
                              /\ rec.assertions[1].assertion_type = "execution"
            /\ LET passed == Cardinality({k \in 1..n :
                                            done[1].detailed.iterations[k].passed})
               IN /\ done[1].result.passed = passed
                  /\ done[1].result.verdict =
                       VerdictOf(passed, n, task.skill_dir.config.threshold)
            /\ (pc = "exited" /\ ~cli.no_error_log) =>
                 (LogHolds(s, done[1].detailed) <=> SkillFailed(s))

\* a run that exited with 0 although the agent call of the second iteration
\* of a test failed after the first iteration had passed
C25_Witness ==
  /\ pc = "exited"
  /\ exit_code = SUCCESS
  /\ \E t \in 1..Len(tasks) :
       /\ PartialFailure(t)
       /\ tasks[t].detailed_iterations[1].passed
       /\ ~tasks[t].history[2].exec

\* C26: a list-shape test file resolves only if no test case of it reads a
\* referenced file twice: a second reference to a canonical file already
\* visited for the test case, in its required or in its golden list, fails.
C26_NoFileLoadedTwice ==
  (loader.state = "resolved" /\ loader.test_file.shape = "list" /\ loader.result.ok) =>
    \A j \in 1..Len(loader.result.val) : Distinct(loader.result.val[j].reads)

\* the detailed results of the TestCompleted events of one skill among evs,
\* in the order of evs
DetailsOf(evs, name) ==
  LET sel == SelectSeq(evs, LAMBDA e : e.kind = "TestCompleted" /\ e.skill_name = name)
  IN [j \in 1..Len(sel) |-> sel[j].detailed]

\* C27: the consumer takes the events in the order they were sent; once the
\* scheduler has returned Ok the consumer drains the channel and returns, the
\* entry point gets past its wait and exits; the consumer returns only after
\* the last event, and a printed JSON report holds, under the skill of every
\* TestCompleted event, the detailed result of that event.
C27_ConsumerDrainsAndExits ==
  /\ [](\A n \in SkillNames : collector[n] = DetailsOf(SubSeq(events, 1, rcvd), n))
  /\ [](handler_pc = "done" => pc \in {"waiting", "exited"} /\ rcvd = Len(events))
  /\ [](report.printed =>
          \A k \in 1..Len(events) :
            events[k].kind = "TestCompleted" =>
              \E j \in 1..Len(report.skills) :
                /\ report.skills[j].skill_name = events[k].skill_name
                /\ \E x \in 1..Len(report.skills[j].tests) :
                     report.skills[j].tests[x] = events[k].detailed)
  /\ (pc = "waiting" ~> (pc = "exited" /\ handler_pc = "done"))

\* a run of two skills with one test each has exited with a printed report,
\* and the scheduler had returned while the consumer was still behind
C27_Witness ==
  /\ pc = "exited"
  /\ report.printed
  /\ Len(report.skills) = 2
  /\ \A j \in 1..2 : Len(report.skills[j].tests) = 1
  /\ rcvd = Len(events)

\* the positions of the events of one kind
EventsAt(kind) == {j \in 1..Len(events) : events[j].kind = kind}

\* the positions, in the loaded test file of a skill, of the test cases the
\* --filter of the command line keeps
Kept(s) ==
  {j \in 1..Len(test_files[s].cases) :
     cli.filter.some => Contains(test_files[s].cases[j].id, cli.filter.str)}

\* C28: once the scheduler has returned Ok, total_tests of AllTestsStarted is
\* the number of TestStarted and of TestCompleted events; test_count of a
\* skill's SkillStarted is the number of the skill's TestCompleted events and
\* of the tests in the skill's final result; all of these count only the test
\* cases the --filter keeps, and a test case it excludes has no event.
C28_CountsAgree ==
  (pc \in {"waiting", "exited"} /\ Len(events) > 0) =>
    /\ events[1].kind = "AllTestsStarted"
    /\ events[1].total_tests = Cardinality(EventsAt("TestStarted"))
    /\ events[1].total_tests = Cardinality(EventsAt("TestCompleted"))
    /\ events[1].total_tests
         = SumSeq([i \in 1..Len(skill_dirs) |-> Cardinality(Kept(skill_dirs[i].name))])
    /\ \A k \in EventsAt("SkillStarted") :
         LET s == events[k].skill_name
         IN /\ events[k].test_count = Cardinality(SkillEventsAt("TestCompleted", s))
            /\ events[k].test_count = Cardinality(Kept(s))
            /\ \E j \in 1..Len(results) :
                 results[j].name = s /\ Len(results[j].tests) = events[k].test_count
    /\ \A i \in 1..Len(skill_dirs) :
         LET s == skill_dirs[i].name
         IN \A j \in (1..Len(test_files[s].cases)) \ Kept(s) :
              ~\E k \in 1..Len(events) :
                 /\ events[k].kind \in TaskKinds
                 /\ events[k].skill_name = s
                 /\ events[k].test_id = test_files[s].cases[j].id

\* a run with a --filter has exited; one skill had a test case the filter
\* keeps and one it excludes, and the kept one has completed
C28_Witness ==
  /\ pc = "exited"
  /\ cli.filter.some
  /\ \E i \in 1..Len(skill_dirs) :
       LET s == skill_dirs[i].name
       IN /\ Len(test_files[s].cases) = 2
          /\ Cardinality(Kept(s)) = 1
          /\ Cardinality(SkillEventsAt("TestCompleted", s)) = 1

\* C29: once the scheduler has returned Ok, every skill directory handed to
\* it, with or without scheduled test cases, has exactly one SkillStarted
\* and exactly one SkillCompleted on the stream, the first before the second.
C29_EverySkillBracketed ==
  (pc \in {"waiting", "exited"} /\ Len(events) > 0) =>
    \A i \in 1..Len(skill_dirs) :
      LET ss == SkillEventsAt("SkillStarted", skill_dirs[i].name)
          sc == SkillEventsAt("SkillCompleted", skill_dirs[i].name)
      IN /\ Cardinality(ss) = 1
         /\ Cardinality(sc) = 1
         /\ \A j \in sc : \E k \in ss : k < j

\* C30: no two scheduled test cases of one skill carry the same test id.
C30_TestIdsDistinct ==
  \A a, b \in 1..Len(all_test_items) :
    (a # b /\ all_test_items[a].skill_dir.name = all_test_items[b].skill_dir.name)
      => all_test_items[a].test_case.id # all_test_items[b].test_case.id

====
